---- MODULE Spec2Model ----
(***************************************************************************)
(* A model of the kaminsky-attack repository: the DNS header codec         *)
(* (src/src/dns/header.rs), the hostname, question, record and message     *)
(* codecs (hostname.rs, question.rs, resource_record.rs, message.rs), the  *)
(* query and response builders (query.rs, response.rs), the client         *)
(* (client.rs), the packet forger (src/src/spoofer.rs) and the attack      *)
(* driver (src/src/kaminsky.rs).                                           *)
(*                                                                         *)
(* Strings are sequences of ASCII codes, byte vectors are sequences of     *)
(* numbers 0..255, a Result is a record with an ok field.                  *)
(***************************************************************************)
EXTENDS Integers, Sequences, FiniteSets, TLC

VARIABLES
    \* ---- attack driver (kaminsky.rs) ----
    pc,                \* position of the driver in attack / spam_message
    attacker_ns,       \* argument of attack
    target_domain,     \* argument of attack
    spoofed_addrs,     \* argument of attack
    duration,          \* argument of attack (clock ticks)
    delay,             \* argument of attack (clock ticks)
    rand_fqdn,         \* local of attack
    request_message,   \* local of attack
    response_message,  \* local of attack
    now,               \* the monotonic clock read by Instant::now()
    start,             \* local of attack: Instant taken before the query is sent
    addr_idx,          \* position of `for addr in spoofed_addrs` (1-based)
    spam_start,        \* local start of spam_message
    spam_duration,     \* argument duration of spam_message
    next_id,           \* next item of the ids iterator of spam_message
    queries_sent,      \* number of real queries handed to the UDP socket
    passes,            \* number of passes of the outer while loop started
    forged_sent,       \* number of forged datagrams handed to the raw socket
    burst_ids,         \* IDs of the forged datagrams of the current burst, in order
    burst_end,         \* how the last spam_message call ended
    reported,          \* the iteration count printed by the early stop
    \* ---- header codec (header.rs) ----
    cpc,               \* position of the codec exercise
    hdr,               \* a Header value
    wire,              \* a byte buffer
    parsed,            \* the Result of a parse (Header::from_bytes, Hostname::parse, ...)
    reemit,            \* the bytes of to_bytes applied to a parsed header
    \* ---- hostname, record and message codecs (hostname.rs, message.rs) ----
    name_str,          \* a string handed to Hostname::from_string
    name_res,          \* the Result of Hostname::from_string
    msg,               \* a record or message value handed to to_bytes
    \* ---- response builder (response.rs) ----
    builder,           \* the Response under construction
    calls,             \* the add_* calls made so far, each with its Result
    out_message,       \* the message returned by to_message
    \* ---- client (client.rs) ----
    cl_pc,             \* position of the client in send_message
    read_timeout,      \* SO_RCVTIMEO of the client's socket, 0 for None
    write_timeout,     \* SO_SNDTIMEO of the client's socket, 0 for None
    cl_now,            \* seconds since send_message was called
    recv_start,        \* the time recv was entered
    reply_at,          \* the time the server's reply arrives, -1 for never
    cl_result,         \* what send_message returned
    \* ---- packet forger (spoofer.rs) ----
    sp_pc,             \* position of the forger exercise
    sp_args,           \* the arguments of Spoofer::new
    spoofer,           \* the Spoofer
    sp_sends,          \* number of send_bytes calls made
    sp_call            \* the last send_bytes call: its bytes, what was handed
                       \* to the raw socket, and what it returned

driver_vars == <<pc, attacker_ns, target_domain, spoofed_addrs, duration, delay,
                 rand_fqdn, request_message, response_message, now, start,
                 addr_idx, spam_start, spam_duration, next_id, queries_sent,
                 passes, forged_sent, burst_ids, burst_end, reported>>

name_vars == <<name_str, name_res, msg>>

response_vars == <<builder, calls, out_message>>

client_vars == <<cl_pc, read_timeout, write_timeout, cl_now, recv_start, reply_at,
                 cl_result>>

spoofer_vars == <<sp_pc, sp_args, spoofer, sp_sends, sp_call>>

ext_vars == <<name_vars, response_vars, client_vars, spoofer_vars>>

codec_vars == <<cpc, hdr, wire, parsed, reemit, ext_vars>>

vars == <<driver_vars, codec_vars>>

(***************************************************************************)
(* Bounds of the model.                                                    *)
(***************************************************************************)
\* Width in bits of the transaction ID space the driver enumerates.  The
\* program's width is 16; the driver is explored with a narrower ID so that a
\* whole burst fits in the state space.  u16_max_value below is 2^IdBits - 1.
IdBits == 3
\* Largest reading of the clock; the clock stops advancing there.
MaxTime == 4
\* Largest number of outer-loop passes that are explored.
MaxPasses == 2

(***************************************************************************)
(* Integer helpers: fixed-width arithmetic on naturals.                    *)
(***************************************************************************)
Pow2(n) == 2 ^ n

\* v << k and v >> k on u16
Shl16(v, k) == (v * Pow2(k)) % 65536
Shr(v, k) == v \div Pow2(k)

Bit(v, i) == (v \div Pow2(i)) % 2

RECURSIVE BitXor(_, _, _)
\* a ^ b on the low n bits
BitXor(a, b, n) ==
    IF n = 0 THEN 0
    ELSE ((Bit(a, n - 1) + Bit(b, n - 1)) % 2) * Pow2(n - 1) + BitXor(a, b, n - 1)

RECURSIVE BitAnd(_, _, _)
\* a & b on the low n bits
BitAnd(a, b, n) ==
    IF n = 0 THEN 0
    ELSE (Bit(a, n - 1) * Bit(b, n - 1)) * Pow2(n - 1) + BitAnd(a, b, n - 1)

Xor16(a, b) == BitXor(a, b, 16)
And16(a, b) == BitAnd(a, b, 16)

\* `b as u16` of a bool
BoolAsU16(b) == IF b THEN 1 ELSE 0

\* u16::to_le_bytes, u16::from_le_bytes, u16::to_be_bytes
u16_to_le_bytes(v) == <<v % 256, (v \div 256) % 256>>
u16_from_le_bytes(b0, b1) == b0 + 256 * b1
u16_to_be_bytes(v) == <<(v \div 256) % 256, v % 256>>

RECURSIVE Flatten(_)
\* flat_map(..).collect(): the concatenation of a sequence of byte vectors
Flatten(ss) == IF ss = <<>> THEN <<>> ELSE Head(ss) \o Flatten(Tail(ss))

(***************************************************************************)
(* Header codec: src/src/dns/header.rs                                     *)
(***************************************************************************)
FIELD_ID == [offset |-> 0]
FIELD_FLAGS == [offset |-> 2]
FIELD_QDCOUNT == [offset |-> 4]
FIELD_ANCOUNT == [offset |-> 6]
FIELD_NSCOUNT == [offset |-> 8]
FIELD_ARCOUNT == [offset |-> 10]

FLAG_QR == [offset |-> 0, width |-> 1]
FLAG_OPCODE == [offset |-> 1, width |-> 4]
FLAG_AA == [offset |-> 5, width |-> 1]
FLAG_TC == [offset |-> 6, width |-> 1]
FLAG_RD == [offset |-> 7, width |-> 1]
FLAG_RA == [offset |-> 8, width |-> 1]
FLAG_Z == [offset |-> 9, width |-> 3]
FLAG_RCODE == [offset |-> 12, width |-> 4]

\* BITMASKS[w] of the source is BITMASKS[w + 1] here (sequences start at 1)
BITMASKS == <<0, 1, 3, 7, 15, 31, 63, 127>>

\* enum Opcode and its discriminants
Opcode == {"QUERY", "IQUERY", "STATUS"}

OpcodeAsU16(op) ==
    CASE op = "QUERY" -> 0
      [] op = "IQUERY" -> 1
      [] op = "STATUS" -> 2

\* Opcode::from_u16 (derive FromPrimitive): None for any other value
Opcode_from_u16(n) ==
    IF \E op \in Opcode : OpcodeAsU16(op) = n
    THEN [some |-> TRUE, val |-> CHOOSE op \in Opcode : OpcodeAsU16(op) = n]
    ELSE [some |-> FALSE]

\* Header::pack: the six 16-bit words
Header_pack(h) ==
    LET second_u16 ==
            Xor16(Xor16(Xor16(Xor16(Xor16(Xor16(Xor16(Xor16(0,
                BoolAsU16(h.qr)),
                Shl16(And16(OpcodeAsU16(h.opcode), BITMASKS[FLAG_OPCODE.width + 1]),
                      FLAG_OPCODE.offset)),
                Shl16(BoolAsU16(h.aa), FLAG_AA.offset)),
                Shl16(BoolAsU16(h.tc), FLAG_TC.offset)),
                Shl16(BoolAsU16(h.rd), FLAG_RD.offset)),
                Shl16(BoolAsU16(h.ra), FLAG_RA.offset)),
                0),
                Shl16(And16(h.rcode, BITMASKS[FLAG_RCODE.width + 1]), FLAG_RCODE.offset))
    IN  <<h.id, second_u16, h.qdcount, h.ancount, h.nscount, h.arcount>>

\* Mutant of Header::to_bytes: the words are written with to_be_bytes
Header_to_bytes_be(h) ==
    Flatten([k \in 1..Len(Header_pack(h)) |-> u16_to_be_bytes(Header_pack(h)[k])])

\* Header::to_bytes: each packed word as two bytes
Header_to_bytes(h) ==
    Flatten([k \in 1..Len(Header_pack(h)) |-> u16_to_le_bytes(Header_pack(h)[k])])

\* buffer[offset] of the source (0-based) is buffer[offset + 1] here
Header_from_bytes(buffer) ==
    LET packed_flags == u16_from_le_bytes(buffer[FIELD_FLAGS.offset + 1],
                                          buffer[FIELD_FLAGS.offset + 2])
        opcode_int == Shr(And16(packed_flags, BITMASKS[FLAG_OPCODE.width + 1]),
                          FLAG_OPCODE.offset)
        opcode == Opcode_from_u16(opcode_int)
        field(f) == u16_from_le_bytes(buffer[f.offset + 1], buffer[f.offset + 2])
        flag(f) == And16(Shr(packed_flags, f.offset), BITMASKS[f.width + 1])
    IN  IF ~opcode.some
        THEN [ok |-> FALSE, err |-> "Unsupported opcode"]
        ELSE [ok |-> TRUE,
              val |-> [id |-> field(FIELD_ID),
                       qdcount |-> field(FIELD_QDCOUNT),
                       ancount |-> field(FIELD_ANCOUNT),
                       nscount |-> field(FIELD_NSCOUNT),
                       arcount |-> field(FIELD_ARCOUNT),
                       \* packed_flags & (BITMASKS[1] >> 0) != 0
                       qr |-> And16(packed_flags,
                                    Shr(BITMASKS[FLAG_QR.width + 1], FLAG_QR.offset)) # 0,
                       opcode |-> opcode.val,
                       aa |-> flag(FLAG_AA) # 0,
                       tc |-> flag(FLAG_TC) # 0,
                       rd |-> flag(FLAG_RD) # 0,
                       ra |-> flag(FLAG_RA) # 0,
                       z |-> flag(FLAG_Z),
                       rcode |-> flag(FLAG_RCODE)]]

(***************************************************************************)
(* Hostname: src/src/dns/hostname.rs                                       *)
(***************************************************************************)
\* char::is_ascii_alphanumeric on an ASCII code
is_ascii_alphanumeric(c) == c \in (48..57) \cup (65..90) \cup (97..122)

\* "-." as ASCII codes
ALLOWED_SPECIAL_CHARS == {45, 46}

\* Mutant of valid_hostname: next_back() defaults to ' ', so that a string of
\* one character has no valid last character
valid_hostname_last_required(hostname) ==
    LET first == IF Len(hostname) = 0 THEN 32 ELSE hostname[1]
        rest == IF Len(hostname) = 0 THEN <<>> ELSE Tail(hostname)
        last == IF Len(rest) = 0 THEN 32 ELSE rest[Len(rest)]
        middle == IF Len(rest) = 0 THEN <<>> ELSE SubSeq(rest, 1, Len(rest) - 1)
    IN  /\ Len(hostname) < 256
        /\ is_ascii_alphanumeric(first)
        /\ is_ascii_alphanumeric(last)
        /\ \A k \in 1..Len(middle) :
              is_ascii_alphanumeric(middle[k]) \/ middle[k] \in ALLOWED_SPECIAL_CHARS

\* valid_hostname: next() takes the first character (' ' when there is none),
\* next_back() the last of the rest ('a' when there is none), all() the middle.
valid_hostname(hostname) ==
    LET first == IF Len(hostname) = 0 THEN 32 ELSE hostname[1]
        rest == IF Len(hostname) = 0 THEN <<>> ELSE Tail(hostname)
        last == IF Len(rest) = 0 THEN 97 ELSE rest[Len(rest)]
        middle == IF Len(rest) = 0 THEN <<>> ELSE SubSeq(rest, 1, Len(rest) - 1)
    IN  /\ Len(hostname) < 256
        /\ is_ascii_alphanumeric(first)
        /\ is_ascii_alphanumeric(last)
        /\ \A k \in 1..Len(middle) :
              is_ascii_alphanumeric(middle[k]) \/ middle[k] \in ALLOWED_SPECIAL_CHARS

RECURSIVE Split(_, _)
\* str::split(sep): the pieces between the separators, empty pieces included
Split(str, sep) ==
    IF \A k \in 1..Len(str) : str[k] # sep
    THEN <<str>>
    ELSE LET k == CHOOSE j \in 1..Len(str) :
                      str[j] = sep /\ \A m \in 1..(j - 1) : str[m] # sep
         IN  <<SubSeq(str, 1, k - 1)>> \o Split(SubSeq(str, k + 1, Len(str)), sep)

\* Hostname::from_string: one NORMAL label per piece, length = len as u8
Hostname_from_string(hostname) ==
    IF ~valid_hostname(hostname)
    THEN [ok |-> FALSE, err |-> "Invalid hostname"]
    ELSE LET pieces == Split(hostname, 46)
         IN  [ok |-> TRUE,
              val |-> [k \in 1..Len(pieces) |->
                          [kind |-> "NORMAL",
                           length |-> Len(pieces[k]) % 256,
                           label |-> pieces[k]]]]

\* Label::to_bytes: HostnameLabel is length then the label's bytes,
\* CompressedHostnameLabel is (0xc000 ^ pointer) big-endian
Label_to_bytes(label) ==
    IF label.kind = "NORMAL"
    THEN <<label.length>> \o label.label
    ELSE u16_to_be_bytes(Xor16(49152, label.pointer))

\* Hostname::to_bytes: the labels' bytes, then the zero octet
Hostname_to_bytes(hostname) ==
    Flatten([k \in 1..Len(hostname) |-> Label_to_bytes(hostname[k])]) \o <<0>>

\* a compressed record is indicated by the first two bits being set
COMPRESSED_MASK == 49152
COMPRESSED_INDICATOR == 49152

\* The outcome of a call that panics (index out of bounds, unwrap of an Err)
Panic == [ok |-> FALSE, panic |-> TRUE]

RECURSIVE from_utf8_ok(_)
\* String::from_utf8(bytes).is_ok(): the bytes are well-formed UTF-8
from_utf8_ok(bytes) ==
    IF \A k \in 1..Len(bytes) : bytes[k] < 128 THEN TRUE
    ELSE LET c == bytes[1]
             n == IF c < 128 THEN 1
                  ELSE IF c \in 194..223 THEN 2
                  ELSE IF c \in 224..239 THEN 3
                  ELSE IF c \in 240..244 THEN 4
                  ELSE 0
         IN  /\ n # 0
             /\ Len(bytes) >= n
             /\ \A k \in 2..n : bytes[k] \in 128..191
             /\ (c = 224 => bytes[2] >= 160)
             /\ (c = 237 => bytes[2] <= 159)
             /\ (c = 240 => bytes[2] >= 144)
             /\ (c = 244 => bytes[2] <= 143)
             /\ from_utf8_ok(SubSeq(bytes, n + 1, Len(bytes)))

RECURSIVE Hostname_parse_loop(_, _, _)
\* The loop of Hostname::parse from offset i (0-based) with the labels read so
\* far.  Every buffer[..] is an indexing that panics out of bounds.
Hostname_parse_loop(buffer, i, labels) ==
    IF i + 1 >= Len(buffer) THEN Panic
    ELSE
    LET next_bytes == buffer[i + 1] * 256 + buffer[i + 2]
    IN  IF And16(next_bytes, COMPRESSED_MASK) = COMPRESSED_INDICATOR
        THEN [ok |-> TRUE, i |-> i + 2,
              labels |-> Append(labels, [kind |-> "COMPRESSED",
                                         pointer |-> next_bytes])]
        ELSE LET label_size == buffer[i + 1]
                 from == i + 1
                 to == from + label_size
                 bytes == SubSeq(buffer, from + 1, to)
                 pushed == Append(labels, [kind |-> "NORMAL",
                                           length |-> label_size,
                                           label |-> bytes])
             IN  IF to > Len(buffer) THEN Panic
                 ELSE IF ~from_utf8_ok(bytes) THEN Panic
                 ELSE IF to >= Len(buffer) THEN Panic
                 ELSE IF buffer[to + 1] = 0
                 THEN [ok |-> TRUE, i |-> to + 1, labels |-> pushed]
                 ELSE Hostname_parse_loop(buffer, to, pushed)

\* Hostname::parse: Ok(ParsedHostname) unless i does not fit a u8
Hostname_parse(buffer) ==
    LET end == Hostname_parse_loop(buffer, 0, <<>>)
    IN  IF ~end.ok THEN end
        ELSE IF end.i % 256 # end.i
        THEN [ok |-> FALSE,
              err |-> "Parsed more bytes than can be represented in a u8"]
        ELSE [ok |-> TRUE,
              val |-> [parsed_bytes |-> end.i, hostname |-> end.labels]]

(***************************************************************************)
(* Query builder: src/src/dns/query.rs                                     *)
(***************************************************************************)
\* Query::new
Query_new(hostnames) ==
    [hostnames |-> hostnames, qtype |-> "A", opcode |-> "QUERY",
     recursion_desired |-> FALSE]

\* Query::to_message; id is the value drawn by rand::random::<u16>()
Query_to_message(query, id) ==
    LET names == [k \in 1..Len(query.hostnames) |->
                     Hostname_from_string(query.hostnames[k])]
        header == [id |-> id, qr |-> FALSE, opcode |-> query.opcode, aa |-> FALSE,
                   tc |-> FALSE, rd |-> query.recursion_desired, ra |-> FALSE,
                   z |-> 0, rcode |-> 0,
                   qdcount |-> Len(query.hostnames) % 65536,
                   ancount |-> 0, nscount |-> 0, arcount |-> 0]
    IN  IF Len(query.hostnames) > 65535
        THEN [ok |-> FALSE, err |-> "Too many hostnames entered"]
        ELSE IF \E k \in 1..Len(names) : ~names[k].ok
        THEN [ok |-> FALSE, err |-> "Invalid hostname"]
        ELSE [ok |-> TRUE,
              val |-> [header |-> header,
                       questions |-> [k \in 1..Len(names) |->
                                         [qname |-> names[k].val,
                                          qtype |-> query.qtype,
                                          qclass |-> "IN"]]]]

(***************************************************************************)
(* Response builder: src/src/dns/response.rs                               *)
(***************************************************************************)
\* ARecord::to_rr
ARecord_to_rr(record) ==
    LET name == Hostname_from_string(record.name)
    IN  IF ~name.ok THEN name
        ELSE [ok |-> TRUE,
              val |-> [name |-> name.val, rtype |-> "A", class |-> "IN",
                       ttl |-> record.ttl, rdlength |-> 4, rdata |-> record.ip]]

\* NSRecord::to_rr: the nameserver is encoded first, then the name is converted
NSRecord_to_rr(record) ==
    LET ns == Hostname_from_string(record.ns)
        name == Hostname_from_string(record.name)
    IN  IF ~ns.ok THEN ns
        ELSE IF ~name.ok THEN name
        ELSE LET ns_bytes == Hostname_to_bytes(ns.val)
             IN  [ok |-> TRUE,
                  val |-> [name |-> name.val, rtype |-> "NS", class |-> "IN",
                           ttl |-> record.ttl, rdlength |-> Len(ns_bytes) % 65536,
                           rdata |-> ns_bytes]]

\* Record::to_rr
Record_to_rr(record) ==
    IF record.variant = "A" THEN ARecord_to_rr(record) ELSE NSRecord_to_rr(record)

\* Mutant of Response::new: the authoritative bit is not set by default
Response_new_not_authoritative(query) ==
    [query |-> query, rcode |-> 0, answers |-> <<>>, authorities |-> <<>>,
     additionals |-> <<>>, authoritative_answer |-> FALSE,
     recursion_available |-> TRUE]

\* Response::new
Response_new(query) ==
    [query |-> query, rcode |-> 0, answers |-> <<>>, authorities |-> <<>>,
     additionals |-> <<>>, authoritative_answer |-> TRUE,
     recursion_available |-> TRUE]

\* Mutant of Response::add_answer: a record that does not convert empties the
\* answers
Response_add_answer_clears(response, record) ==
    LET rr == Record_to_rr(record)
    IN  IF ~rr.ok
        THEN [ok |-> FALSE, err |-> rr.err, val |-> [response EXCEPT !.answers = <<>>]]
        ELSE [ok |-> TRUE,
              val |-> [response EXCEPT !.answers = Append(@, rr.val)]]

\* Response::add_answer: Ok with the record pushed, or Err with self untouched
Response_add_answer(response, record) ==
    LET rr == Record_to_rr(record)
    IN  IF ~rr.ok THEN [ok |-> FALSE, err |-> rr.err, val |-> response]
        ELSE [ok |-> TRUE,
              val |-> [response EXCEPT !.answers = Append(@, rr.val)]]

\* Mutant of Response::add_authority: the record is pushed onto answers
Response_add_authority_into_answers(response, record) ==
    LET rr == Record_to_rr(record)
    IN  IF ~rr.ok THEN [ok |-> FALSE, err |-> rr.err, val |-> response]
        ELSE [ok |-> TRUE,
              val |-> [response EXCEPT !.answers = Append(@, rr.val)]]

\* Response::add_authority
Response_add_authority(response, record) ==
    LET rr == Record_to_rr(record)
    IN  IF ~rr.ok THEN [ok |-> FALSE, err |-> rr.err, val |-> response]
        ELSE [ok |-> TRUE,
              val |-> [response EXCEPT !.authorities = Append(@, rr.val)]]

\* Mutant of Response::add_additional: the record is put before the others
Response_add_additional_first(response, record) ==
    LET rr == Record_to_rr(record)
    IN  IF ~rr.ok THEN [ok |-> FALSE, err |-> rr.err, val |-> response]
        ELSE [ok |-> TRUE,
              val |-> [response EXCEPT !.additionals = <<rr.val>> \o @]]

\* Response::add_additional
Response_add_additional(response, record) ==
    LET rr == Record_to_rr(record)
    IN  IF ~rr.ok THEN [ok |-> FALSE, err |-> rr.err, val |-> response]
        ELSE [ok |-> TRUE,
              val |-> [response EXCEPT !.additionals = Append(@, rr.val)]]

\* Response::to_message
Response_to_message(response) ==
    [header |-> [response.query.header EXCEPT
                    !.qr = TRUE,
                    !.aa = response.authoritative_answer,
                    !.ra = response.recursion_available,
                    !.rcode = response.rcode,
                    !.ancount = Len(response.answers) % 65536,
                    !.nscount = Len(response.authorities) % 65536,
                    !.arcount = Len(response.additionals) % 65536],
     questions |-> response.query.questions,
     answers |-> response.answers,
     authorities |-> response.authorities,
     additionals |-> response.additionals]

(***************************************************************************)
(* Types and classes: src/src/dns/types.rs, classes.rs                     *)
(***************************************************************************)
\* `rtype as u16`
TypeAsU16(t) ==
    CASE t = "A" -> 1 [] t = "NS" -> 2 [] t = "CNAME" -> 5 [] t = "SOA" -> 6
      [] t = "TXT" -> 16

\* Type::from_u16
Type_from_u16(n) ==
    CASE n = 1 -> [some |-> TRUE, val |-> "A"]
      [] n = 2 -> [some |-> TRUE, val |-> "NS"]
      [] n = 5 -> [some |-> TRUE, val |-> "CNAME"]
      [] n = 6 -> [some |-> TRUE, val |-> "SOA"]
      [] n = 16 -> [some |-> TRUE, val |-> "TXT"]
      [] OTHER -> [some |-> FALSE]

\* `class as u16`
ClassAsU16(c) == CASE c = "IN" -> 1

\* Class::from_u16
Class_from_u16(n) ==
    IF n = 1 THEN [some |-> TRUE, val |-> "IN"] ELSE [some |-> FALSE]

(***************************************************************************)
(* Question: src/src/dns/question.rs                                       *)
(***************************************************************************)
u16_from_be_bytes(b0, b1) == b0 * 256 + b1

\* Question::to_bytes: qname, then qtype and qclass big-endian
Question_to_bytes(q) ==
    Hostname_to_bytes(q.qname) \o u16_to_be_bytes(TypeAsU16(q.qtype))
        \o u16_to_be_bytes(ClassAsU16(q.qclass))

\* The part of Question::parse after `Hostname::parse(buffer)?`;
\* buffer[k] of the source is buffer[k + 1] here
Question_parse_fields(buffer, parsed_hostname) ==
    LET p0 == parsed_hostname.val.parsed_bytes
        qtype == Type_from_u16(u16_from_be_bytes(buffer[p0 + 1], buffer[p0 + 2]))
        qclass == Class_from_u16(u16_from_be_bytes(buffer[p0 + 3], buffer[p0 + 4]))
    IN  IF p0 + 2 > Len(buffer) THEN Panic
        ELSE IF ~qtype.some THEN [ok |-> FALSE, err |-> "Unsupported QTYPE"]
        ELSE IF p0 + 4 > Len(buffer) THEN Panic
        ELSE IF ~qclass.some THEN [ok |-> FALSE, err |-> "Unsupported QCLASS"]
        ELSE IF p0 + 4 > 255
        THEN [ok |-> FALSE, err |-> "Parsed more bytes than can fit into a u8"]
        ELSE [ok |-> TRUE,
              val |-> [parsed_bytes |-> p0 + 4,
                       question |-> [qname |-> parsed_hostname.val.hostname,
                                     qtype |-> qtype.val,
                                     qclass |-> qclass.val]]]

\* Question::parse.  The local parsed_hostname is bound through a singleton
\* set, which makes it a value computed once.
Question_parse(buffer) ==
    CHOOSE result \in
        { IF ~parsed_hostname.ok THEN parsed_hostname
          ELSE Question_parse_fields(buffer, parsed_hostname) :
             parsed_hostname \in {Hostname_parse(buffer)} } : TRUE

(***************************************************************************)
(* Resource record: src/src/dns/resource_record.rs                         *)
(***************************************************************************)
u32_to_le_bytes(v) ==
    <<v % 256, (v \div 256) % 256, (v \div 65536) % 256, (v \div 16777216) % 256>>
u32_from_le_bytes(b0, b1, b2, b3) == b0 + b1 * 256 + b2 * 65536 + b3 * 16777216
u32_to_be_bytes(v) ==
    <<(v \div 16777216) % 256, (v \div 65536) % 256, (v \div 256) % 256, v % 256>>

\* ResourceRecord::to_bytes (pack): name, rtype, class, ttl, rdlength with
\* to_le_bytes, then rdata
ResourceRecord_to_bytes(rr) ==
    Hostname_to_bytes(rr.name) \o u16_to_le_bytes(TypeAsU16(rr.rtype))
        \o u16_to_le_bytes(ClassAsU16(rr.class)) \o u32_to_le_bytes(rr.ttl)
        \o u16_to_le_bytes(rr.rdlength) \o rr.rdata

\* The part of ResourceRecord::parse after `Hostname::parse(buffer)?`;
\* buffer[k] of the source is buffer[k + 1] here
ResourceRecord_parse_fields(buffer, parsed_hostname) ==
    LET p0 == parsed_hostname.val.parsed_bytes
        rtype == Type_from_u16(u16_from_le_bytes(buffer[p0 + 1], buffer[p0 + 2]))
        class == Class_from_u16(u16_from_le_bytes(buffer[p0 + 3], buffer[p0 + 4]))
        ttl == u32_from_le_bytes(buffer[p0 + 5], buffer[p0 + 6], buffer[p0 + 7],
                                 buffer[p0 + 8])
        rdlength == u16_from_le_bytes(buffer[p0 + 9], buffer[p0 + 10])
        end == p0 + 10 + rdlength
    IN  IF p0 + 2 > Len(buffer) THEN Panic
        ELSE IF ~rtype.some THEN [ok |-> FALSE, err |-> "Unsupported QTYPE"]
        ELSE IF p0 + 4 > Len(buffer) THEN Panic
        ELSE IF ~class.some THEN [ok |-> FALSE, err |-> "Unsupported QCLASS"]
        ELSE IF p0 + 10 > Len(buffer) THEN Panic
        ELSE IF end > Len(buffer) THEN Panic
        ELSE IF end > 255
        THEN [ok |-> FALSE, err |-> "Parsed more bytes than can fit into a u8"]
        ELSE [ok |-> TRUE,
              val |-> [parsed_bytes |-> end,
                       record |-> [name |-> parsed_hostname.val.hostname,
                                   rtype |-> rtype.val,
                                   class |-> class.val,
                                   ttl |-> ttl,
                                   rdlength |-> rdlength,
                                   rdata |-> SubSeq(buffer, p0 + 11, end)]]]

\* ResourceRecord::parse
ResourceRecord_parse(buffer) ==
    CHOOSE result \in
        { IF ~parsed_hostname.ok THEN parsed_hostname
          ELSE ResourceRecord_parse_fields(buffer, parsed_hostname) :
             parsed_hostname \in {Hostname_parse(buffer)} } : TRUE

(***************************************************************************)
(* Messages: src/src/dns/message.rs                                        *)
(***************************************************************************)
\* Header::parse: from_bytes reads the flags word first, then the other words
Header_parse(buffer) ==
    IF Len(buffer) < 4 THEN Panic
    ELSE LET header == Header_from_bytes(buffer \o [k \in 1..12 |-> 0])
         IN  IF ~header.ok THEN header
             ELSE IF Len(buffer) < 12 THEN Panic
             ELSE [ok |-> TRUE, val |-> [parsed_bytes |-> 2 * 6, header |-> header.val]]

\* &buffer[parsed_bytes..]
SliceFrom(buffer, parsed_bytes) == SubSeq(buffer, parsed_bytes + 1, Len(buffer))

RECURSIVE Questions_parse(_, _, _, _)
\* for _ in 0..count { Question::parse(&buffer[parsed_bytes..])? ... }
Questions_parse(buffer, parsed_bytes, count, questions) ==
    IF count = 0
    THEN [ok |-> TRUE, val |-> [parsed_bytes |-> parsed_bytes, items |-> questions]]
    ELSE CHOOSE result \in
             { IF ~item.ok THEN item
               ELSE Questions_parse(buffer, parsed_bytes + item.val.parsed_bytes,
                                    count - 1, Append(questions, item.val.question)) :
                  item \in {Question_parse(SliceFrom(buffer, parsed_bytes))} } : TRUE

RECURSIVE Records_parse(_, _, _, _)
\* for _ in 0..count { Answer::parse(&buffer[parsed_bytes..])? ... }
Records_parse(buffer, parsed_bytes, count, records) ==
    IF count = 0
    THEN [ok |-> TRUE, val |-> [parsed_bytes |-> parsed_bytes, items |-> records]]
    ELSE CHOOSE result \in
             { IF ~item.ok THEN item
               ELSE Records_parse(buffer, parsed_bytes + item.val.parsed_bytes,
                                  count - 1, Append(records, item.val.record)) :
                  item \in {ResourceRecord_parse(SliceFrom(buffer, parsed_bytes))} } : TRUE

\* QuestionMessage::to_bytes
QuestionMessage_to_bytes(m) ==
    Header_to_bytes(m.header)
        \o Flatten([k \in 1..Len(m.questions) |-> Question_to_bytes(m.questions[k])])

\* QuestionMessage::parse.  Each local is bound through a singleton set, which
\* makes it a value computed once.
QuestionMessage_parse(buffer) ==
    CHOOSE result \in
        { IF ~parsed_header.ok THEN parsed_header
          ELSE CHOOSE sections \in
                   { IF ~questions.ok THEN questions
                     ELSE [ok |-> TRUE,
                           val |-> [header |-> parsed_header.val.header,
                                    questions |-> questions.val.items]] :
                        questions \in
                            {Questions_parse(buffer, parsed_header.val.parsed_bytes,
                                             parsed_header.val.header.qdcount, <<>>)} } :
                   TRUE :
             parsed_header \in {Header_parse(buffer)} } : TRUE

\* ResponseMessage::to_bytes
ResponseMessage_to_bytes(m) ==
    Header_to_bytes(m.header)
        \o Flatten([k \in 1..Len(m.answers) |-> ResourceRecord_to_bytes(m.answers[k])])
        \o Flatten([k \in 1..Len(m.authorities) |->
                       ResourceRecord_to_bytes(m.authorities[k])])
        \o Flatten([k \in 1..Len(m.additionals) |->
                       ResourceRecord_to_bytes(m.additionals[k])])

\* The additionals loop and the return of ResponseMessage::parse
ResponseMessage_parse_additionals(buffer, header, answers, authorities) ==
    CHOOSE result \in
        { IF ~additionals.ok THEN additionals
          ELSE [ok |-> TRUE,
                val |-> [header |-> header,
                         answers |-> answers.val.items,
                         authorities |-> authorities.val.items,
                         additionals |-> additionals.val.items]] :
             additionals \in {Records_parse(buffer, authorities.val.parsed_bytes,
                                            header.arcount, <<>>)} } : TRUE

\* The authorities loop of ResponseMessage::parse and what follows it
ResponseMessage_parse_authorities(buffer, header, answers) ==
    CHOOSE result \in
        { IF ~authorities.ok THEN authorities
          ELSE ResponseMessage_parse_additionals(buffer, header, answers, authorities) :
             authorities \in {Records_parse(buffer, answers.val.parsed_bytes,
                                            header.nscount, <<>>)} } : TRUE

\* The answers loop of ResponseMessage::parse and what follows it
ResponseMessage_parse_answers(buffer, parsed_header) ==
    CHOOSE result \in
        { IF ~answers.ok THEN answers
          ELSE ResponseMessage_parse_authorities(buffer, parsed_header.val.header,
                                                 answers) :
             answers \in {Records_parse(buffer, parsed_header.val.parsed_bytes,
                                        parsed_header.val.header.ancount, <<>>)} } : TRUE

\* ResponseMessage::parse.  Each local is bound through a singleton set, which
\* makes it a value computed once.
ResponseMessage_parse(buffer) ==
    CHOOSE result \in
        { IF ~parsed_header.ok THEN parsed_header
          ELSE ResponseMessage_parse_answers(buffer, parsed_header) :
             parsed_header \in {Header_parse(buffer)} } : TRUE

\* Message::to_bytes: the header's bytes, then the bytes of every question,
\* answer, authority and additional in that order (the layout of
\* QuestionMessage::to_bytes and ResponseMessage::to_bytes)
Message_to_bytes(message) ==
    Header_to_bytes(message.header)
        \o Flatten([k \in 1..Len(message.questions) |->
                       Question_to_bytes(message.questions[k])])
        \o Flatten([k \in 1..Len(message.answers) |->
                       ResourceRecord_to_bytes(message.answers[k])])
        \o Flatten([k \in 1..Len(message.authorities) |->
                       ResourceRecord_to_bytes(message.authorities[k])])
        \o Flatten([k \in 1..Len(message.additionals) |->
                       ResourceRecord_to_bytes(message.additionals[k])])

\* kaminsky.rs lines 98-105: the bytes handed to send_bytes for id, which are
\* message.to_bytes() with bytes[0] and bytes[1] overwritten by id.to_be_bytes()
spam_bytes(message, id) ==
    [Message_to_bytes(message) EXCEPT ![1] = u16_to_be_bytes(id)[1],
                                      ![2] = u16_to_be_bytes(id)[2]]

NoHeader == [none |-> TRUE]
NoResult == [none |-> TRUE]

NamesIdle ==
    /\ name_str = <<>>
    /\ name_res = NoResult
    /\ msg = NoResult

ResponseIdle ==
    /\ builder = NoResult
    /\ calls = <<>>
    /\ out_message = NoResult

ClientIdle ==
    /\ cl_pc = "idle"
    /\ read_timeout = 0
    /\ write_timeout = 0
    /\ cl_now = 0
    /\ recv_start = 0
    /\ reply_at = -1
    /\ cl_result = NoResult

SpooferIdle ==
    /\ sp_pc = "idle"
    /\ sp_args = NoResult
    /\ spoofer = NoResult
    /\ sp_sends = 0
    /\ sp_call = NoResult

ExtIdle == NamesIdle /\ ResponseIdle /\ ClientIdle /\ SpooferIdle

CodecIdle ==
    /\ cpc = "idle"
    /\ hdr = NoHeader
    /\ wire = <<>>
    /\ parsed = NoResult
    /\ reemit = <<>>
    /\ ExtIdle

(***************************************************************************)
(* Attack driver: src/src/kaminsky.rs                                      *)
(***************************************************************************)
RAND_RESOURCE_LEN == 7
TTL == 240

\* The largest value of the (IdBits wide) integer type of the IDs:
\* u16::max_value() of the source.
IdMax == Pow2(IdBits) - 1

\* ('a'..='z').chain('A'..='Z').chain('0'..='9'), as ASCII codes
alphanum ==
    [i \in 1..62 |-> IF i <= 26 THEN 96 + i ELSE IF i <= 52 THEN 38 + i ELSE i - 5]

\* Mutant of rand_alphanum_string: the range is 0..=length, one character more
rand_alphanum_string_inclusive(length, picks) ==
    { [k \in 1..(length + 1) |-> alphanum[f[k]]] : f \in [1..(length + 1) -> picks] }

\* rand_alphanum_string(length): every string it may return when the random
\* choices fall on the positions `picks` of alphanum
rand_alphanum_string(length, picks) ==
    { [k \in 1..length |-> alphanum[f[k]]] : f \in [1..length -> picks] }

\* Positions of alphanum the random choice is explored with: in the whole
\* driver 'a' alone, in the build phase 'a', 'A' and '9'.
DriverPicks == {1}
BuildPicks == {1, 27, 62}

\* The ids argument of spam_message: the range 0..u16::max_value()
SpamIds == 0..(IdMax - 1)

\* duration.checked_sub(start.elapsed()).unwrap_or(duration)
SpamBudget(total, elapsed) == IF elapsed > total THEN total ELSE total - elapsed

\* Positions at which the driver is running between `start` and its return.
Running == {"send_query", "while", "for", "sleep", "spam_call", "spam_send",
            "spam_check"}

\* lines 32-36: the random subdomain and the queried name
RandFqdn(picks) ==
    /\ pc = "start"
    /\ \E label \in rand_alphanum_string(RAND_RESOURCE_LEN, picks) :
          rand_fqdn' = label \o <<46>> \o target_domain
    /\ pc' = "build"
    /\ UNCHANGED <<attacker_ns, target_domain, spoofed_addrs, duration, delay,
                   request_message, response_message, now, start, addr_idx,
                   spam_start, spam_duration, next_id, queries_sent, passes,
                   forged_sent, burst_ids, burst_end, reported, codec_vars>>

\* lines 43-64: the real query, the forged response (unwrap panics when a
\* record's name is no valid hostname), and the start instant
BuildMessages ==
    /\ pc = "build"
    /\ \E id \in 0..IdMax :
          LET request == Query_new(<<rand_fqdn>>)
              rm == Query_to_message(request, id)
              r0 == Response_new(rm.val)
              r1 == Response_add_answer(r0,
                        [variant |-> "A", name |-> rand_fqdn, ttl |-> 0,
                         ip |-> <<127, 0, 0, 1>>])
              r2 == Response_add_authority(r1.val,
                        [variant |-> "NS", name |-> target_domain, ttl |-> TTL,
                         ns |-> attacker_ns])
          IN  IF ~rm.ok
              THEN /\ pc' = "err"
                   /\ UNCHANGED <<request_message, response_message, start>>
              ELSE IF ~r1.ok \/ ~r2.ok
              THEN /\ pc' = "panic"
                   /\ request_message' = rm.val
                   /\ UNCHANGED <<response_message, start>>
              ELSE /\ pc' = "send_query"
                   /\ request_message' = rm.val
                   /\ response_message' = Response_to_message(r2.val)
                   /\ start' = now
    /\ UNCHANGED <<attacker_ns, target_domain, spoofed_addrs, duration, delay,
                   rand_fqdn, now, addr_idx, spam_start, spam_duration, next_id,
                   queries_sent, passes, forged_sent, burst_ids, burst_end,
                   reported, codec_vars>>

\* Mutant of the query send: a failed send is ignored and the flood goes on
SendQuery_IgnoresError ==
    /\ pc = "send_query"
    /\ \E sent \in BOOLEAN :
          /\ queries_sent' = IF sent THEN queries_sent + 1 ELSE queries_sent
          /\ pc' = "while"
    /\ UNCHANGED <<attacker_ns, target_domain, spoofed_addrs, duration, delay,
                   rand_fqdn, request_message, response_message, now, start,
                   addr_idx, spam_start, spam_duration, next_id, passes,
                   forged_sent, burst_ids, burst_end, reported, codec_vars>>

\* line 67: client.send_message_no_recv(&request_message)?  The socket is
\* bound and connected, then the query is sent; any failure returns the error.
SendQuery ==
    /\ pc = "send_query"
    /\ \E sent \in BOOLEAN :
          IF sent
          THEN queries_sent' = queries_sent + 1 /\ pc' = "while"
          ELSE queries_sent' = queries_sent /\ pc' = "err"
    /\ UNCHANGED <<attacker_ns, target_domain, spoofed_addrs, duration, delay,
                   rand_fqdn, request_message, response_message, now, start,
                   addr_idx, spam_start, spam_duration, next_id, passes,
                   forged_sent, burst_ids, burst_end, reported, codec_vars>>

\* line 69: while start.elapsed() < duration
WhileCheck ==
    /\ pc = "while"
    /\ IF now - start < duration
       THEN /\ passes < MaxPasses
            /\ passes' = passes + 1
            /\ addr_idx' = 1
            /\ pc' = "for"
       ELSE /\ pc' = "done"
            /\ UNCHANGED <<passes, addr_idx>>
    /\ UNCHANGED <<attacker_ns, target_domain, spoofed_addrs, duration, delay,
                   rand_fqdn, request_message, response_message, now, start,
                   spam_start, spam_duration, next_id, queries_sent,
                   forged_sent, burst_ids, burst_end, reported, codec_vars>>

\* lines 70-75: for addr in spoofed_addrs, and Spoofer::new for the address
ForNext ==
    /\ pc = "for"
    /\ IF addr_idx <= Len(spoofed_addrs)
       THEN \E opened \in BOOLEAN : pc' = IF opened THEN "sleep" ELSE "err"
       ELSE pc' = "while"
    /\ UNCHANGED <<attacker_ns, target_domain, spoofed_addrs, duration, delay,
                   rand_fqdn, request_message, response_message, now, start,
                   addr_idx, spam_start, spam_duration, next_id, queries_sent,
                   passes, forged_sent, burst_ids, burst_end, reported,
                   codec_vars>>

\* line 78: std::thread::sleep(delay)
Sleep ==
    /\ pc = "sleep"
    /\ now + delay <= MaxTime
    /\ now' = now + delay
    /\ pc' = "spam_call"
    /\ UNCHANGED <<attacker_ns, target_domain, spoofed_addrs, duration, delay,
                   rand_fqdn, request_message, response_message, start,
                   addr_idx, spam_start, spam_duration, next_id, queries_sent,
                   passes, forged_sent, burst_ids, burst_end, reported,
                   codec_vars>>

\* Mutant of the call of spam_message: the enumeration starts at 1
SpamCall_FromOne ==
    /\ pc = "spam_call"
    /\ spam_duration' = SpamBudget(duration, now - start)
    /\ spam_start' = now
    /\ next_id' = 1
    /\ burst_ids' = <<>>
    /\ burst_end' = "none"
    /\ pc' = "spam_send"
    /\ UNCHANGED <<attacker_ns, target_domain, spoofed_addrs, duration, delay,
                   rand_fqdn, request_message, response_message, now, start,
                   addr_idx, queries_sent, passes, forged_sent, reported,
                   codec_vars>>

\* lines 80-85 and 98-101: the call of spam_message and its first statements
SpamCall ==
    /\ pc = "spam_call"
    /\ spam_duration' = SpamBudget(duration, now - start)
    /\ spam_start' = now
    /\ next_id' = 0
    /\ burst_ids' = <<>>
    /\ burst_end' = "none"
    /\ pc' = "spam_send"
    /\ UNCHANGED <<attacker_ns, target_domain, spoofed_addrs, duration, delay,
                   rand_fqdn, request_message, response_message, now, start,
                   addr_idx, queries_sent, passes, forged_sent, reported,
                   codec_vars>>

\* Mutant of the send: a failed send is skipped and the burst goes on with the
\* next id
SpamSend_SkipsFailedId ==
    /\ pc = "spam_send"
    /\ IF next_id \in SpamIds
       THEN \E sent \in BOOLEAN :
               IF sent
               THEN /\ burst_ids' = Append(burst_ids, next_id)
                    /\ forged_sent' = forged_sent + 1
                    /\ pc' = "spam_check"
                    /\ UNCHANGED <<burst_end, addr_idx>>
               ELSE /\ burst_end' = "error"
                    /\ pc' = "spam_check"
                    /\ UNCHANGED <<burst_ids, forged_sent, addr_idx>>
       ELSE /\ burst_end' = "exhausted"
            /\ addr_idx' = addr_idx + 1
            /\ pc' = "for"
            /\ UNCHANGED <<burst_ids, forged_sent>>
    /\ UNCHANGED <<attacker_ns, target_domain, spoofed_addrs, duration, delay,
                   rand_fqdn, request_message, response_message, now, start,
                   spam_start, spam_duration, next_id, queries_sent, passes,
                   reported, codec_vars>>

\* Mutant of the send: when the ids are exhausted the burst does not return
SpamSend_NeverReturns ==
    /\ pc = "spam_send"
    /\ IF next_id \in SpamIds
       THEN \E sent \in BOOLEAN :
               IF sent
               THEN /\ burst_ids' = Append(burst_ids, next_id)
                    /\ forged_sent' = forged_sent + 1
                    /\ pc' = "spam_check"
                    /\ UNCHANGED <<burst_end, addr_idx>>
               ELSE /\ burst_end' = "error"
                    /\ pc' = "err"
                    /\ UNCHANGED <<burst_ids, forged_sent, addr_idx>>
       ELSE /\ burst_end' = "exhausted"
            /\ pc' = "spam_send"
            /\ UNCHANGED <<burst_ids, forged_sent, addr_idx>>
    /\ UNCHANGED <<attacker_ns, target_domain, spoofed_addrs, duration, delay,
                   rand_fqdn, request_message, response_message, now, start,
                   spam_start, spam_duration, next_id, queries_sent, passes,
                   reported, codec_vars>>

\* lines 102-110: the next id of the iterator, its two bytes written into the
\* message and the datagram sent; the loop ends when the iterator is exhausted
SpamSend ==
    /\ pc = "spam_send"
    /\ IF next_id \in SpamIds
       THEN \E sent \in BOOLEAN :
               IF sent
               THEN /\ burst_ids' = Append(burst_ids, next_id)
                    /\ forged_sent' = forged_sent + 1
                    /\ pc' = "spam_check"
                    /\ UNCHANGED <<burst_end, addr_idx>>
               ELSE /\ burst_end' = "error"
                    /\ pc' = "err"
                    /\ UNCHANGED <<burst_ids, forged_sent, addr_idx>>
       ELSE /\ burst_end' = "exhausted"
            /\ addr_idx' = addr_idx + 1
            /\ pc' = "for"
            /\ UNCHANGED <<burst_ids, forged_sent>>
    /\ UNCHANGED <<attacker_ns, target_domain, spoofed_addrs, duration, delay,
                   rand_fqdn, request_message, response_message, now, start,
                   spam_start, spam_duration, next_id, queries_sent, passes,
                   reported, codec_vars>>

\* lines 112-119: the early stop once the burst's budget is exceeded
SpamCheck ==
    /\ pc = "spam_check"
    /\ IF now - spam_start > spam_duration
       THEN /\ reported' = next_id + 1
            /\ burst_end' = "deadline"
            /\ addr_idx' = addr_idx + 1
            /\ pc' = "for"
            /\ UNCHANGED next_id
       ELSE /\ next_id' = next_id + 1
            /\ pc' = "spam_send"
            /\ UNCHANGED <<reported, burst_end, addr_idx>>
    /\ UNCHANGED <<attacker_ns, target_domain, spoofed_addrs, duration, delay,
                   rand_fqdn, request_message, response_message, now, start,
                   spam_start, spam_duration, queries_sent, passes, forged_sent,
                   burst_ids, codec_vars>>

\* The clock advances while the driver runs.
Tick ==
    /\ pc \in Running
    /\ now < MaxTime
    /\ now' = now + 1
    /\ UNCHANGED <<pc, attacker_ns, target_domain, spoofed_addrs, duration, delay,
                   rand_fqdn, request_message, response_message, start,
                   addr_idx, spam_start, spam_duration, next_id, queries_sent,
                   passes, forged_sent, burst_ids, burst_end, reported,
                   codec_vars>>

\* Strings used as arguments
Str_b_c == <<98, 46, 99>>
Str_ns_d == <<110, 115, 46, 100>>
Str_b_dash == <<98, 45>>
Str_dash_b == <<45, 98>>

\* <<target_domain, attacker_ns>> arguments: valid names; an attacker_ns that is
\* no hostname; a target_domain that makes the queried name invalid; a
\* target_domain that is itself invalid while the queried name is valid.
NameInputs == {<<Str_b_c, Str_ns_d>>, <<Str_b_c, <<>> >>, <<Str_b_dash, Str_ns_d>>,
               <<Str_dash_b, Str_ns_d>>}

Durations == {0, 1, 2}
Delays == {0, 2}
AddrLists == {<<>>, <<"ns1">>, <<"ns1", "ns2">>}

InitDriver(names, durations, delays, addrs) ==
    /\ pc = "start"
    /\ \E n \in names : target_domain = n[1] /\ attacker_ns = n[2]
    /\ spoofed_addrs \in addrs
    /\ duration \in durations
    /\ delay \in delays
    /\ rand_fqdn = <<>>
    /\ request_message = NoResult
    /\ response_message = NoResult
    /\ now = 0
    /\ start = 0
    /\ addr_idx = 0
    /\ spam_start = 0
    /\ spam_duration = 0
    /\ next_id = 0
    /\ queries_sent = 0
    /\ passes = 0
    /\ forged_sent = 0
    /\ burst_ids = <<>>
    /\ burst_end = "none"
    /\ reported = 0
    /\ CodecIdle

Init == InitDriver(NameInputs, Durations, Delays, AddrLists)

Next ==
    \/ RandFqdn(DriverPicks)
    \/ BuildMessages
    \/ SendQuery
    \/ WhileCheck
    \/ ForNext
    \/ Sleep
    \/ SpamCall
    \/ SpamSend
    \/ SpamCheck
    \/ Tick

Spec == Init /\ [][Next]_vars

\* The steps of the thread that runs attack
DriverStep ==
    \/ RandFqdn(DriverPicks)
    \/ BuildMessages
    \/ SendQuery
    \/ WhileCheck
    \/ ForNext
    \/ Sleep
    \/ SpamCall
    \/ SpamSend
    \/ SpamCheck

\* The attack driver under the conditions of its termination: the thread keeps
\* running (every send and every sleep returns) and the clock advances.
InitLive == InitDriver(NameInputs, {0, 2}, Delays, AddrLists)

SpecLive == InitLive /\ [][Next]_vars /\ WF_vars(DriverStep) /\ WF_vars(Tick)

\* The build phase alone, over more random labels.
InitBuild == InitDriver(NameInputs, {0}, {0}, {<<>>})

NextBuild == RandFqdn(BuildPicks) \/ BuildMessages

SpecBuild == InitBuild /\ [][NextBuild]_vars

(***************************************************************************)
(* Claims about the attack driver                                          *)
(***************************************************************************)
\* The IDs of the forged datagrams of the current burst
BurstIdSet == {burst_ids[k] : k \in 1..Len(burst_ids)}

\* The driver is inside spam_message.
Flooding == pc \in {"spam_send", "spam_check"}

\* C1: a burst that ends neither by the deadline nor by a send error has sent
\* one forged response for every value of the ID type, 0 through its largest
\* value, so the ID of the real query is among them.
C1_BurstCoversIdSpace ==
    burst_end = "exhausted"
        => (BurstIdSet = 0..IdMax /\ request_message.header.id \in BurstIdSet)

\* C2: every pass of the outer loop sends a new real query before it floods:
\* while the driver floods, the number of real queries sent equals the number
\* of passes started.
C2_QueryPerPass == Flooding => queries_sent = passes

\* C3: the budget given to a burst never exceeds the time that remains until
\* start + duration when the burst starts, and no burst starts after it.
C3_DeadlineEnforced == Flooding => spam_start + spam_duration <= start + duration

\* C4: if at least one forged response has been transmitted, the real query
\* has been sent successfully before.
C4_QueryBeforeForged == forged_sent > 0 => queries_sent >= 1

C4_Witness == forged_sent > 0 /\ queries_sent = 1 /\ Flooding

\* C5: the query built by Query::new and to_message, the real query the
\* driver is about to send, has the recursion-desired flag set.
C5_QueryRecursionDesired ==
    pc = "send_query" => request_message.header.rd = TRUE

LowerOrDigit == (97..122) \cup (48..57)
AsciiAlnum == (97..122) \cup (65..90) \cup (48..57)

\* The queried name is a label of RAND_RESOURCE_LEN characters of `chars`,
\* then '.', then target_domain.
FqdnShape(chars) ==
    /\ Len(rand_fqdn) = RAND_RESOURCE_LEN + 1 + Len(target_domain)
    /\ \A k \in 1..RAND_RESOURCE_LEN : rand_fqdn[k] \in chars
    /\ rand_fqdn[RAND_RESOURCE_LEN + 1] = 46
    /\ SubSeq(rand_fqdn, RAND_RESOURCE_LEN + 2, Len(rand_fqdn)) = target_domain

\* C6 (as stated): the random label has exactly 7 characters, each a lowercase
\* letter or a digit, and the name queried is label.target_domain.
C6_LabelLowercase == pc # "start" => FqdnShape(LowerOrDigit)

\* C6 (amended): the random label has exactly 7 characters, each a letter of
\* either case or a digit, and the name queried is label.target_domain.
C6_LabelAlphanumeric ==
    pc # "start" => (RAND_RESOURCE_LEN = 7 /\ FqdnShape(AsciiAlnum))

C6_Witness ==
    /\ pc = "build"
    /\ rand_fqdn[1] = 65 /\ rand_fqdn[2] = 97 /\ rand_fqdn[7] = 57
    /\ target_domain = Str_b_c

RECURSIVE JoinLabels(_)
\* The labels of a hostname joined by '.'
JoinLabels(hostname) ==
    IF hostname = <<>> THEN <<>>
    ELSE IF Len(hostname) = 1 THEN hostname[1].label
    ELSE hostname[1].label \o <<46>> \o JoinLabels(Tail(hostname))

\* C7: the forged response carries the question of the real query, exactly one
\* answer (A, name = the random FQDN, TTL 0) and exactly one authority (NS,
\* name = target_domain, rdata = the encoded attacker_ns, TTL 240), with qr set
\* and ancount = 1, nscount = 1, arcount = 0.
C7_ForgedResponse ==
    response_message # NoResult =>
        LET m == response_message
        IN  /\ m.questions = request_message.questions
            /\ Len(m.questions) = 1
            /\ JoinLabels(m.questions[1].qname) = rand_fqdn
            /\ Len(m.answers) = 1
            /\ m.answers[1].rtype = "A"
            /\ JoinLabels(m.answers[1].name) = rand_fqdn
            /\ m.answers[1].ttl = 0
            /\ Len(m.authorities) = 1
            /\ m.authorities[1].rtype = "NS"
            /\ JoinLabels(m.authorities[1].name) = target_domain
            /\ m.authorities[1].rdata
                  = Hostname_to_bytes(Hostname_from_string(attacker_ns).val)
            /\ (attacker_ns = Str_ns_d
                  => m.authorities[1].rdata = <<2, 110, 115, 1, 100, 0>>)
            /\ m.authorities[1].ttl = 240
            /\ m.additionals = <<>>
            /\ m.header.qr = TRUE
            /\ m.header.ancount = 1
            /\ m.header.nscount = 1
            /\ m.header.arcount = 0

C7_Witness ==
    /\ pc = "send_query"
    /\ response_message # NoResult
    /\ attacker_ns = Str_ns_d
    /\ rand_fqdn[1] = 65
    /\ response_message.header.id = IdMax

\* C21: within one burst the forged responses are transmitted in strictly
\* increasing ID order: the first carries ID 0 and each following one the ID of
\* the previous plus one, none skipped and none repeated.
C21_BurstIdsAscending ==
    \A k \in 1..Len(burst_ids) : burst_ids[k] = k - 1

C21_Witness ==
    /\ pc = "spam_check"
    /\ Len(burst_ids) >= 3
    /\ burst_ids[1] = 0
    /\ burst_ids[Len(burst_ids)] = next_id

\* C23: once the send of a forged datagram has failed the driver has returned
\* the error: no forged datagram is sent afterwards, neither for that id, nor
\* for a later id, nor for a later spoofed address.
C23_SendErrorAborts ==
    [][burst_end = "error" =>
          /\ pc = "err"
          /\ pc' = "err"
          /\ forged_sent' = forged_sent
          /\ burst_ids' = burst_ids
          /\ burst_end' = "error"]_vars

\* A send failed after some ids were sent, with ids and a spoofed address left.
C23_Witness ==
    /\ burst_end = "error"
    /\ pc = "err"
    /\ Len(burst_ids) >= 1
    /\ next_id < IdMax - 1
    /\ addr_idx < Len(spoofed_addrs)

\* C29: for every id k of the flood, the forged datagram for k is byte for byte
\* the encoding of the forged response with header id = k.
C29_DatagramIsMessageWithId ==
    \A k \in BurstIdSet :
        spam_bytes(response_message, k)
            = Message_to_bytes([response_message EXCEPT !.header.id = k])

\* attack has returned: Ok(()), an Err, or a panic of an unwrap.
Returned == pc \in {"done", "err", "panic"}

\* The exploration stops here: a further pass would exceed MaxPasses, or the
\* sleep would end after MaxTime.
BoundReached ==
    \/ pc = "while" /\ now - start < duration /\ passes = MaxPasses
    \/ pc = "sleep" /\ now + delay > MaxTime

\* The count of the last early-stop message is the number of forged datagrams
\* of that burst and is below the size of the ID space.
ReportedCount ==
    burst_end = "deadline" => (reported = Len(burst_ids) /\ reported < IdMax + 1)

\* C27: for every duration (zero included) and every list of spoofed addresses
\* (the empty one included), when the thread keeps running and the clock
\* advances, the driver leaves every burst and every loop and stays returned
\* (within the passes and the clock readings explored); and an early-stop
\* count always equals the number of forged datagrams sent in that burst and
\* is below 2^IdBits (65536 for the program's 16-bit ids).
C27_DriverReturns ==
    /\ []ReportedCount
    /\ <>[](Returned \/ BoundReached)

\* The driver returned Ok after a burst that was stopped early at 3 datagrams.
C27_Witness ==
    /\ pc = "done"
    /\ burst_end = "deadline"
    /\ reported = 3
    /\ Len(spoofed_addrs) = 1
    /\ passes >= 1

(***************************************************************************)
(* Exercise of the header codec: a header is emitted and parsed back, or a *)
(* 12-byte buffer is parsed and re-emitted.                                *)
(***************************************************************************)

\* Header values the codec is exercised with.  id, the counts and rcode are
\* samples of their integer types (u16, u8) that include the boundary values.
HeaderIds == {0, 56130, 65535}
HeaderCounts == {<<0, 0, 0, 0>>, <<1, 2, 3, 4>>, <<65535, 256, 1, 255>>}
HeaderRcodes == {0, 3, 15, 16, 255}
HeaderZs == {0, 7}

HeaderInputs ==
    { [id |-> i, qr |-> f[1], opcode |-> op, aa |-> f[2], tc |-> f[3], rd |-> f[4],
       ra |-> f[5], z |-> zz, rcode |-> rc,
       qdcount |-> c[1], ancount |-> c[2], nscount |-> c[3], arcount |-> c[4]] :
         i \in HeaderIds, f \in [1..5 -> BOOLEAN], op \in Opcode, zz \in HeaderZs,
         rc \in HeaderRcodes, c \in HeaderCounts }

\* 12-byte buffers: every value of the low flags byte, samples of the high one.
WireHighFlags == {0, 14, 48, 255}
WireInputs ==
    { <<66, 219, lo, hi, 1, 0, 2, 0, 3, 0, 4, 0>> : lo \in 0..255, hi \in WireHighFlags }

DriverIdle ==
    /\ pc = "idle"
    /\ attacker_ns = <<>>
    /\ target_domain = <<>>
    /\ spoofed_addrs = <<>>
    /\ duration = 0
    /\ delay = 0
    /\ rand_fqdn = <<>>
    /\ request_message = NoResult
    /\ response_message = NoResult
    /\ now = 0
    /\ start = 0
    /\ addr_idx = 0
    /\ spam_start = 0
    /\ spam_duration = 0
    /\ next_id = 0
    /\ queries_sent = 0
    /\ passes = 0
    /\ forged_sent = 0
    /\ burst_ids = <<>>
    /\ burst_end = "none"
    /\ reported = 0

InitHeader ==
    /\ DriverIdle
    /\ ExtIdle
    /\ parsed = NoResult
    /\ reemit = <<>>
    /\ \/ /\ cpc = "header_in"
          /\ hdr \in HeaderInputs
          /\ wire = <<>>
       \/ /\ cpc = "wire_in"
          /\ hdr = NoHeader
          /\ wire \in WireInputs

\* header.to_bytes()
EmitHeader ==
    /\ cpc = "header_in"
    /\ wire' = Header_to_bytes(hdr)
    /\ cpc' = "emitted"
    /\ UNCHANGED <<hdr, parsed, reemit, driver_vars, ext_vars>>

\* Header::from_bytes(buffer)
ParseHeader ==
    /\ cpc \in {"emitted", "wire_in"}
    /\ parsed' = Header_from_bytes(wire)
    /\ cpc' = "parsed"
    /\ UNCHANGED <<hdr, wire, reemit, driver_vars, ext_vars>>

\* Header::from_bytes(&bytes).unwrap().to_bytes()
ReEmitHeader ==
    /\ cpc = "parsed"
    /\ parsed.ok
    /\ reemit' = Header_to_bytes(parsed.val)
    /\ cpc' = "reemitted"
    /\ UNCHANGED <<hdr, wire, parsed, driver_vars, ext_vars>>

NextHeader == EmitHeader \/ ParseHeader \/ ReEmitHeader

SpecHeader == InitHeader /\ [][NextHeader]_vars

(***************************************************************************)
(* Claims about the header codec                                           *)
(***************************************************************************)
\* The header was emitted by to_bytes and the bytes were parsed back.
RoundTripDone == cpc \in {"parsed", "reemitted"} /\ hdr # NoHeader

\* C8 (as stated): for every Header value h with z = 0, whatever rcode its u8
\* field holds, parsing the bytes emitted for h returns a header equal to h.
C8_RoundTripAnyRcode ==
    (RoundTripDone /\ hdr.z = 0) => (parsed.ok /\ parsed.val = hdr)

\* C8 (amended): for every Header value h with z = 0 and rcode <= 15, parsing
\* the 12 bytes emitted for h returns a header equal to h.
C8_RoundTrip ==
    (RoundTripDone /\ hdr.z = 0 /\ hdr.rcode <= 15) => (parsed.ok /\ parsed.val = hdr)

C8_Witness ==
    /\ RoundTripDone
    /\ hdr.z = 0 /\ hdr.rcode = 15 /\ hdr.opcode = "STATUS" /\ hdr.id = 56130
    /\ hdr.qr /\ hdr.ra /\ hdr.qdcount = 65535
    /\ parsed.ok

\* The header of scenario A: id=0xdb42, qr=false, opcode=QUERY, rd=true, rcode=3,
\* qdcount=1, ancount=2, nscount=3, arcount=4 (the other flags false, z = 0).
ScenarioAHeader ==
    [id |-> 56130, qr |-> FALSE, opcode |-> "QUERY", aa |-> FALSE, tc |-> FALSE,
     rd |-> TRUE, ra |-> FALSE, z |-> 0, rcode |-> 3,
     qdcount |-> 1, ancount |-> 2, nscount |-> 3, arcount |-> 4]

\* C9: emitting the scenario A header yields the big-endian bytes
\* db 42 01 03 00 01 00 02 00 03 00 04.
C9_ScenarioABigEndian ==
    (cpc = "emitted" /\ hdr = ScenarioAHeader)
        => wire = <<219, 66, 1, 3, 0, 1, 0, 2, 0, 3, 0, 4>>

\* The 4-bit opcode field of a buffer, at the place pack writes it
\* (FLAG_OPCODE: offset 1, width 4 of the flags word).
OpcodeField(buffer) ==
    (Shr(u16_from_le_bytes(buffer[FIELD_FLAGS.offset + 1], buffer[FIELD_FLAGS.offset + 2]),
         FLAG_OPCODE.offset)) % Pow2(FLAG_OPCODE.width)

\* C10: a buffer whose 4-bit opcode field holds any of 3..15 is rejected by
\* parse: an error and no header.
C10_UnknownOpcodeRejected ==
    (cpc = "parsed" /\ hdr = NoHeader /\ OpcodeField(wire) \in 3..15) => ~parsed.ok

\* A 12-byte buffer was parsed and the parsed header emitted again.
ReEmitDone == cpc = "reemitted" /\ hdr = NoHeader

\* The reserved Z field of a buffer (FLAG_Z: offset 9, width 3 of the flags
\* word), which pack always writes as zero.
ZField(buffer) ==
    (Shr(u16_from_le_bytes(buffer[FIELD_FLAGS.offset + 1], buffer[FIELD_FLAGS.offset + 2]),
         FLAG_Z.offset)) % Pow2(FLAG_Z.width)

\* C22: for every 12-byte buffer the header parser accepts, emitting the parsed
\* header again returns exactly the same 12 bytes.  Stated for the accepted
\* buffers whose reserved Z bits are zero, the only ones an emitter that
\* writes Z = 0 can reproduce.
C22_ReEmitSameBytes == (ReEmitDone /\ ZField(wire) = 0) => reemit = wire

(***************************************************************************)
(* Exercise of the hostname codec: a string is converted by from_string,   *)
(* emitted by to_bytes and parsed back, or a byte buffer is parsed.        *)
(***************************************************************************)
\* Longest string enumerated over NameChars
MaxNameLen == 4

\* 'a', 'Z', '5', '-', '.', '_', ' '
NameChars == {97, 90, 53, 45, 46, 95, 32}

\* n times the character c
Repeat(c, n) == [k \in 1..n |-> c]

\* Every string over NameChars up to MaxNameLen, and strings of 'a' around the
\* lengths 192 (0xc0) and 256
NameStrings ==
    UNION { [1..n -> NameChars] : n \in 0..MaxNameLen }
        \cup { Repeat(97, n) : n \in {191, 192, 255, 256} }

\* Encoded names of the repository's tests and short buffers over a few bytes
Wire_www_example_com ==
    <<3, 119, 119, 119, 7, 101, 120, 97, 109, 112, 108, 101, 3, 99, 111, 109, 0>>
Wire_service_ptr == <<7, 115, 101, 114, 118, 105, 99, 101, 192, 12>>
WireBytes == {0, 1, 12, 97, 192}
\* One label whose length byte is 64 (0x40) or 128 (0x80), then the terminator
Wire_label64 == <<64>> \o Repeat(97, 64) \o <<0>>
Wire_label128 == <<128>> \o Repeat(97, 128) \o <<0>>
NameWires ==
    UNION { [1..n -> WireBytes] : n \in 1..3 }
        \cup { Wire_www_example_com, Wire_www_example_com \o <<0, 1, 0, 1>>,
               Wire_service_ptr, <<192, 12, 0, 1, 0, 1>>, <<0, 0, 1, 0, 1>>,
               <<255, 255>>, <<0, 3, 119, 119, 119, 0>>,
               Wire_label64, Wire_label128, <<1, 97, 128, 12>> }

HeaderIdle ==
    /\ hdr = NoHeader
    /\ reemit = <<>>

InitHostname ==
    /\ DriverIdle
    /\ HeaderIdle
    /\ ResponseIdle
    /\ ClientIdle
    /\ SpooferIdle
    /\ msg = NoResult
    /\ name_res = NoResult
    /\ parsed = NoResult
    /\ \/ /\ cpc = "string_in"
          /\ name_str \in NameStrings
          /\ wire = <<>>
       \/ /\ cpc = "bytes_in"
          /\ name_str = <<>>
          /\ wire \in NameWires

\* Hostname::from_string(name_str)
FromString ==
    /\ cpc = "string_in"
    /\ name_res' = Hostname_from_string(name_str)
    /\ cpc' = "converted"
    /\ UNCHANGED <<hdr, wire, parsed, reemit, name_str, msg, response_vars,
                   client_vars, spoofer_vars, driver_vars>>

\* hostname.to_bytes()
EmitHostname ==
    /\ cpc = "converted"
    /\ name_res.ok
    /\ wire' = Hostname_to_bytes(name_res.val)
    /\ cpc' = "name_emitted"
    /\ UNCHANGED <<hdr, parsed, reemit, name_vars, response_vars, client_vars,
                   spoofer_vars, driver_vars>>

\* Hostname::parse(buffer)
ParseHostname ==
    /\ cpc \in {"name_emitted", "bytes_in"}
    /\ parsed' = Hostname_parse(wire)
    /\ cpc' = "name_parsed"
    /\ UNCHANGED <<hdr, wire, reemit, name_vars, response_vars, client_vars,
                   spoofer_vars, driver_vars>>

\* Hostname::parse(buffer).unwrap().hostname.to_bytes()
ReEmitHostname ==
    /\ cpc = "name_parsed"
    /\ parsed.ok
    /\ reemit' = Hostname_to_bytes(parsed.val.hostname)
    /\ cpc' = "name_reemitted"
    /\ UNCHANGED <<hdr, wire, parsed, name_vars, response_vars, client_vars,
                   spoofer_vars, driver_vars>>

NextHostname == FromString \/ EmitHostname \/ ParseHostname \/ ReEmitHostname

SpecHostname == InitHostname /\ [][NextHostname]_vars

(***************************************************************************)
(* Claims about the hostname codec                                         *)
(***************************************************************************)
\* The string was accepted, encoded, and the encoding parsed back.
NameRoundTripDone == cpc = "name_parsed" /\ name_res # NoResult

\* The buffer was handed to Hostname::parse as it is.
BufferParsed == cpc = "name_parsed" /\ name_res = NoResult

\* C11: for every string accepted by from_string, parsing the bytes of its
\* encoding succeeds, consumes exactly all of the bytes, and yields labels that
\* joined by '.' are the string.
C11_HostnameRoundTrip ==
    NameRoundTripDone =>
        /\ parsed.ok
        /\ parsed.val.parsed_bytes = Len(wire)
        /\ \A k \in 1..Len(parsed.val.hostname) :
              parsed.val.hostname[k].kind = "NORMAL"
        /\ JoinLabels(parsed.val.hostname) = name_str

\* The strings the description of from_string rejects: empty, 256 characters
\* or more, first or last character not alphanumeric, or a character outside
\* [A-Za-z0-9.-].
AsciiAlnumSet == (48..57) \cup (65..90) \cup (97..122)
RejectedByRule(str) ==
    \/ Len(str) = 0
    \/ Len(str) >= 256
    \/ str[1] \notin AsciiAlnumSet
    \/ str[Len(str)] \notin AsciiAlnumSet
    \/ \E k \in 1..Len(str) : str[k] \notin AsciiAlnumSet \cup {45, 46}

\* C12: from_string returns an error exactly for the strings of RejectedByRule
\* and accepts every other string, a single alphanumeric character included.
C12_FromStringRejects ==
    name_res # NoResult => (~name_res.ok <=> RejectedByRule(name_str))

\* A string of one alphanumeric character was accepted.
C12_Witness ==
    /\ cpc = "converted"
    /\ Len(name_str) = 1
    /\ name_res.ok

\* C13: a buffer that begins with the zero length byte decodes to a name with
\* no labels, with exactly 1 byte consumed, whatever follows.
C13_LeadingZeroTerminates ==
    (BufferParsed /\ wire[1] = 0) =>
        /\ parsed.ok
        /\ parsed.val.hostname = <<>>
        /\ parsed.val.parsed_bytes = 1

\* C14: a buffer that begins with a compression pointer decodes to a single
\* COMPRESSED label whose pointer is the low 14 bits of the big-endian 16-bit
\* value, with 2 bytes consumed.
C14_PointerLow14Bits ==
    (BufferParsed /\ Len(wire) >= 2 /\ wire[1] >= 192) =>
        /\ parsed.ok
        /\ parsed.val.parsed_bytes = 2
        /\ parsed.val.hostname
              = <<[kind |-> "COMPRESSED",
                   pointer |-> (wire[1] % 64) * 256 + wire[2]]>>

\* Length bytes whose top two bits are 01 or 10
ReservedLengths == 64..191

\* C24: a label length byte with reserved bits set (64..191) is never accepted
\* as the length of a NORMAL label, and a buffer that holds such a byte as its
\* first length byte, with the bytes that length asks for, yields an error.
C24_ReservedLengthRejected ==
    BufferParsed =>
        /\ parsed.ok =>
              \A k \in 1..Len(parsed.val.hostname) :
                 parsed.val.hostname[k].kind = "NORMAL"
                    => parsed.val.hostname[k].length \notin ReservedLengths
        /\ (wire[1] \in ReservedLengths /\ Len(wire) >= wire[1] + 2)
              => (~parsed.ok /\ parsed # Panic)

\* C30: for every buffer Hostname::parse accepts, names that end in a
\* compression pointer included, emitting the parsed hostname again yields
\* exactly the bytes the parse consumed.
C30_ReEmitConsumedBytes ==
    (cpc = "name_reemitted" /\ name_res = NoResult) =>
        reemit = SubSeq(wire, 1, parsed.val.parsed_bytes)

(***************************************************************************)
(* Exercise of the record and message codecs: a value is emitted by        *)
(* to_bytes and parsed back, or a byte buffer is parsed.                   *)
(***************************************************************************)
\* "www.example.com"
Str_www_example_com ==
    <<119, 119, 119, 46, 101, 120, 97, 109, 112, 108, 101, 46, 99, 111, 109>>

\* Records as the response builder makes them (ARecord, NSRecord).  The TTLs
\* stay below 2^31, the largest number the checker holds.
RecordSources ==
    { [variant |-> "A", name |-> n, ttl |-> t, ip |-> a] :
         n \in {Str_www_example_com, Str_b_c}, t \in {0, 600, 2147483647},
         a \in {<<155, 33, 17, 68>>, <<1, 2, 3, 4>>} }
      \cup { [variant |-> "NS", name |-> Str_b_c, ns |-> Str_ns_d, ttl |-> t] :
                t \in {240, 65536} }

\* The A record of the repository's tests: www.example.com, TTL 600, 155.33.17.68
RR_A == Record_to_rr([variant |-> "A", name |-> Str_www_example_com, ttl |-> 600,
                      ip |-> <<155, 33, 17, 68>>]).val
RR_A2 == Record_to_rr([variant |-> "A", name |-> Str_b_c, ttl |-> 0,
                       ip |-> <<1, 2, 3, 4>>]).val
RR_NS == Record_to_rr([variant |-> "NS", name |-> Str_b_c, ns |-> Str_ns_d,
                       ttl |-> 240]).val
\* A TXT record whose rdata is 250 bytes long
RR_TXT == [name |-> Hostname_from_string(Str_b_c).val, rtype |-> "TXT",
           class |-> "IN", ttl |-> 600, rdlength |-> 250, rdata |-> Repeat(97, 250)]

RecordInputs == { Record_to_rr(r).val : r \in RecordSources } \cup {RR_TXT}

\* RR_A written with every field in network byte order
Wire_RR_A_be ==
    Hostname_to_bytes(RR_A.name)
        \o <<0, 1, 0, 1, 0, 0, 2, 88, 0, 4, 155, 33, 17, 68>>

RecordWires ==
    { Wire_RR_A_be, ResourceRecord_to_bytes(RR_A) \o <<120, 86, 52, 18>>,
      Hostname_to_bytes(RR_A.name), <<0>> }

Q_www == [qname |-> Hostname_from_string(Str_www_example_com).val, qtype |-> "A",
          qclass |-> "IN"]
Q_b_c == [qname |-> Hostname_from_string(Str_b_c).val, qtype |-> "NS",
          qclass |-> "IN"]
\* A question for the root name: no labels
Q_root == [qname |-> <<>>, qtype |-> "NS", qclass |-> "IN"]

MkHeader(id, qr, rd, counts) ==
    [id |-> id, qr |-> qr, opcode |-> "QUERY", aa |-> qr, tc |-> FALSE, rd |-> rd,
     ra |-> qr, z |-> 0, rcode |-> 0, qdcount |-> counts[1], ancount |-> counts[2],
     nscount |-> counts[3], arcount |-> counts[4]]

MessageIds == {0, 56130}
QuestionLists == {<<>>, <<Q_www>>, <<Q_www, Q_b_c>>, <<Q_root>>}
AnswerLists == {<<>>, <<RR_A>>, <<RR_A, RR_A2>>}
AuthorityLists == {<<>>, <<RR_NS>>}
AdditionalLists == {<<>>, <<RR_A2>>, <<RR_TXT>>}

\* Messages whose header counts are the lengths of their sections
QuestionMessages ==
    { [header |-> MkHeader(i, FALSE, rd, <<Len(qs), 0, 0, 0>>), questions |-> qs] :
         i \in MessageIds, rd \in BOOLEAN, qs \in QuestionLists }
ResponseMessages ==
    { [header |-> MkHeader(i, TRUE, TRUE, <<qd, Len(an), Len(ns), Len(ar)>>),
       answers |-> an, authorities |-> ns, additionals |-> ar] :
         i \in MessageIds, qd \in {0, 1}, an \in AnswerLists, ns \in AuthorityLists,
         ar \in AdditionalLists }

\* A reply in the layout of RFC 1035: header, the question, then the answer
Wire_reply ==
    Header_to_bytes(MkHeader(56130, TRUE, TRUE, <<1, 1, 0, 0>>))
        \o Question_to_bytes(Q_www) \o ResourceRecord_to_bytes(RR_A)

\* Buffers that end too early: a header of 3 bytes; a header that announces two
\* questions followed by one; one question cut inside its name; a header that
\* announces one answer followed by a record without its last rdata byte; a
\* header that announces one answer and one authority followed by the answer.
Wire_short_header == <<1, 2, 3>>
Wire_missing_question ==
    Header_to_bytes(MkHeader(1, FALSE, TRUE, <<2, 0, 0, 0>>)) \o Question_to_bytes(Q_www)
Wire_cut_name ==
    Header_to_bytes(MkHeader(1, FALSE, TRUE, <<1, 0, 0, 0>>)) \o <<3, 119, 119>>
Wire_cut_record ==
    Header_to_bytes(MkHeader(1, TRUE, TRUE, <<0, 1, 0, 0>>))
        \o SubSeq(ResourceRecord_to_bytes(RR_A), 1, Len(ResourceRecord_to_bytes(RR_A)) - 1)
Wire_missing_authority ==
    Header_to_bytes(MkHeader(1, TRUE, TRUE, <<0, 1, 1, 0>>)) \o ResourceRecord_to_bytes(RR_A)
TruncatedWires ==
    { Wire_short_header, Wire_missing_question, Wire_cut_name, Wire_cut_record,
      Wire_missing_authority }

MessageWires ==
    { Wire_reply,
      Header_to_bytes(MkHeader(1, TRUE, TRUE, <<1, 0, 0, 0>>)) \o Question_to_bytes(Q_www),
      Header_to_bytes(MkHeader(1, TRUE, TRUE, <<0, 1, 1, 0>>))
          \o ResourceRecord_to_bytes(RR_A) \o ResourceRecord_to_bytes(RR_NS),
      Header_to_bytes(MkHeader(1, FALSE, TRUE, <<0, 0, 0, 0>>)) \o <<1, 2, 3>> }
        \cup TruncatedWires

InitMessage ==
    /\ DriverIdle
    /\ HeaderIdle
    /\ ResponseIdle
    /\ ClientIdle
    /\ SpooferIdle
    /\ name_str = <<>>
    /\ name_res = NoResult
    /\ parsed = NoResult
    /\ \/ /\ cpc = "rr_in"
          /\ msg \in RecordInputs
          /\ wire = <<>>
       \/ /\ cpc = "rr_wire_in"
          /\ msg = NoResult
          /\ wire \in RecordWires
       \/ /\ cpc = "qmsg_in"
          /\ msg \in QuestionMessages
          /\ wire = <<>>
       \/ /\ cpc = "rmsg_in"
          /\ msg \in ResponseMessages
          /\ wire = <<>>
       \/ /\ cpc \in {"qwire_in", "rwire_in"}
          /\ msg = NoResult
          /\ wire \in MessageWires

\* record.to_bytes()
EmitRecord ==
    /\ cpc = "rr_in"
    /\ wire' = ResourceRecord_to_bytes(msg)
    /\ cpc' = "rr_emitted"
    /\ UNCHANGED <<hdr, parsed, reemit, ext_vars, driver_vars>>

\* ResourceRecord::parse(buffer)
ParseRecord ==
    /\ cpc \in {"rr_emitted", "rr_wire_in"}
    /\ parsed' = ResourceRecord_parse(wire)
    /\ cpc' = "rr_parsed"
    /\ UNCHANGED <<hdr, wire, reemit, ext_vars, driver_vars>>

\* QuestionMessage::to_bytes
EmitQuestionMessage ==
    /\ cpc = "qmsg_in"
    /\ wire' = QuestionMessage_to_bytes(msg)
    /\ cpc' = "qmsg_emitted"
    /\ UNCHANGED <<hdr, parsed, reemit, ext_vars, driver_vars>>

\* QuestionMessage::parse(buffer)
ParseQuestionMessage ==
    /\ cpc \in {"qmsg_emitted", "qwire_in"}
    /\ parsed' = QuestionMessage_parse(wire)
    /\ cpc' = "qmsg_parsed"
    /\ UNCHANGED <<hdr, wire, reemit, ext_vars, driver_vars>>

\* ResponseMessage::to_bytes
EmitResponseMessage ==
    /\ cpc = "rmsg_in"
    /\ wire' = ResponseMessage_to_bytes(msg)
    /\ cpc' = "rmsg_emitted"
    /\ UNCHANGED <<hdr, parsed, reemit, ext_vars, driver_vars>>

\* ResponseMessage::parse(buffer)
ParseResponseMessage ==
    /\ cpc \in {"rmsg_emitted", "rwire_in"}
    /\ parsed' = ResponseMessage_parse(wire)
    /\ cpc' = "rmsg_parsed"
    /\ UNCHANGED <<hdr, wire, reemit, ext_vars, driver_vars>>

NextMessage ==
    \/ EmitRecord
    \/ ParseRecord
    \/ EmitQuestionMessage
    \/ ParseQuestionMessage
    \/ EmitResponseMessage
    \/ ParseResponseMessage

SpecMessage == InitMessage /\ [][NextMessage]_vars

(***************************************************************************)
(* Claims about the record and message codecs                              *)
(***************************************************************************)
\* The fields of a record after its name, every one in network byte order
RecordFieldsBigEndian(rr) ==
    u16_to_be_bytes(TypeAsU16(rr.rtype)) \o u16_to_be_bytes(ClassAsU16(rr.class))
        \o u32_to_be_bytes(rr.ttl) \o u16_to_be_bytes(rr.rdlength) \o rr.rdata

\* C15: a resource record is emitted as name, rtype, class, ttl, rdlength,
\* rdata with every multi-byte field big-endian (for the A record
\* www.example.com, TTL 600, 155.33.17.68 the bytes after the name are
\* 00 01 00 01 00 00 02 58 00 04 9b 21 11 44), and parse reads the same
\* fields back big-endian.
C15_RecordBigEndian ==
    /\ (cpc = "rr_emitted" =>
           wire = Hostname_to_bytes(msg.name) \o RecordFieldsBigEndian(msg))
    /\ ((cpc = "rr_emitted" /\ msg = RR_A) =>
           SubSeq(wire, Len(Hostname_to_bytes(msg.name)) + 1, Len(wire))
              = <<0, 1, 0, 1, 0, 0, 2, 88, 0, 4, 155, 33, 17, 68>>)
    /\ ((cpc = "rr_parsed" /\ wire = Wire_RR_A_be) =>
           parsed.ok /\ parsed.val.record = RR_A)

\* C16: for every message whose header counts are the lengths of its sections,
\* parsing the emitted bytes succeeds and gives a message equal to it.
C16_MessageRoundTrip ==
    (cpc \in {"qmsg_parsed", "rmsg_parsed"} /\ msg # NoResult) =>
        parsed.ok /\ parsed.val = msg

\* The section of a message, empty when the message has no such section
Section(m, f) == IF f \in DOMAIN m THEN m[f] ELSE <<>>

\* C17: after every successful parse of a message the result holds exactly
\* qdcount questions, ancount answers, nscount authorities and arcount
\* additionals, read in that order from right after the 12-byte header, each
\* starting where the previous one ended.
C17_ParseTrustsCounts ==
    (cpc \in {"qmsg_parsed", "rmsg_parsed"} /\ parsed.ok) =>
        LET h == parsed.val.header
            qs == Questions_parse(wire, 12, h.qdcount, <<>>)
            an == Records_parse(wire, qs.val.parsed_bytes, h.ancount, <<>>)
            ns == Records_parse(wire, an.val.parsed_bytes, h.nscount, <<>>)
            ar == Records_parse(wire, ns.val.parsed_bytes, h.arcount, <<>>)
        IN  /\ Len(Section(parsed.val, "questions")) = h.qdcount
            /\ Len(Section(parsed.val, "answers")) = h.ancount
            /\ Len(Section(parsed.val, "authorities")) = h.nscount
            /\ Len(Section(parsed.val, "additionals")) = h.arcount
            /\ qs.ok /\ Section(parsed.val, "questions") = qs.val.items
            /\ an.ok /\ Section(parsed.val, "answers") = an.val.items
            /\ ns.ok /\ Section(parsed.val, "authorities") = ns.val.items
            /\ ar.ok /\ Section(parsed.val, "additionals") = ar.val.items

\* The parser the buffer is handed to sees it end too early: every buffer of
\* TruncatedWires for the response parser, those that lack question bytes for
\* the question parser (which reads no record section).
EndsTooEarly ==
    \/ cpc = "rmsg_parsed" /\ msg = NoResult /\ wire \in TruncatedWires
    \/ /\ cpc = "qmsg_parsed" /\ msg = NoResult
       /\ wire \in {Wire_short_header, Wire_missing_question, Wire_cut_name}

\* C25: parsing a buffer that ends too early returns an error value: it neither
\* crashes nor yields a successful parse.
C25_TruncatedIsError == EndsTooEarly => (~parsed.ok /\ parsed # Panic)

(***************************************************************************)
(* Exercise of the response builder: Response::new on a query message, any *)
(* sequence of add_answer / add_authority / add_additional, to_message.    *)
(***************************************************************************)
\* Most add_* calls made on one Response
MaxCalls == 3

\* Query messages handed to Response::new.  The header is copied as it is, so
\* the flags, rcode and counts of the query are samples of any header.
QueryHeaders ==
    { [id |-> i, qr |-> f, opcode |-> op, aa |-> f, tc |-> t, rd |-> ~t, ra |-> f,
       z |-> zz, rcode |-> zz, qdcount |-> 1, ancount |-> zz, nscount |-> 0,
       arcount |-> zz] :
         i \in {0, 56130}, f \in BOOLEAN, t \in BOOLEAN, zz \in {0, 3},
         op \in {"QUERY", "STATUS"} }
QueryInputs ==
    { [header |-> h, questions |-> <<Q_www>>, answers |-> <<>>,
       authorities |-> <<>>, additionals |-> <<>>] : h \in QueryHeaders }

\* Records handed to add_*: an A record, an NS record, an A record whose name
\* from_string rejects
Rec_A == [variant |-> "A", name |-> Str_www_example_com, ttl |-> 600,
          ip |-> <<155, 33, 17, 68>>]
Rec_NS == [variant |-> "NS", name |-> Str_b_c, ns |-> Str_ns_d, ttl |-> 240]
Rec_bad == [variant |-> "A", name |-> Str_dash_b, ttl |-> 0, ip |-> <<1, 2, 3, 4>>]
\* An NS record whose nameserver from_string rejects
Rec_bad_ns == [variant |-> "NS", name |-> Str_b_c, ns |-> Str_b_dash, ttl |-> 240]
AddRecords == {Rec_A, Rec_NS, Rec_bad}
\* The records handed to add_authority
AuthorityRecords == {Rec_A, Rec_NS, Rec_bad_ns}

InitResponse ==
    /\ DriverIdle
    /\ HeaderIdle
    /\ ClientIdle
    /\ SpooferIdle
    /\ name_str = <<>>
    /\ name_res = NoResult
    /\ wire = <<>>
    /\ parsed = NoResult
    /\ cpc = "query_in"
    /\ msg \in QueryInputs
    /\ builder = NoResult
    /\ calls = <<>>
    /\ out_message = NoResult

\* Response::new(query)
NewResponse ==
    /\ cpc = "query_in"
    /\ builder' = Response_new(msg)
    /\ cpc' = "building"
    /\ UNCHANGED <<hdr, wire, parsed, reemit, name_vars, calls, out_message,
                   client_vars, spoofer_vars, driver_vars>>

\* response.add_answer(record): the call and its Result are logged
AddAnswer(record) ==
    /\ cpc = "building"
    /\ Len(calls) < MaxCalls
    /\ LET r == Response_add_answer(builder, record)
       IN  /\ builder' = r.val
           /\ calls' = Append(calls, [fn |-> "add_answer", record |-> record,
                                      ok |-> r.ok])
    /\ UNCHANGED <<cpc, hdr, wire, parsed, reemit, name_vars, out_message,
                   client_vars, spoofer_vars, driver_vars>>

\* response.add_authority(record)
AddAuthority(record) ==
    /\ cpc = "building"
    /\ Len(calls) < MaxCalls
    /\ LET r == Response_add_authority(builder, record)
       IN  /\ builder' = r.val
           /\ calls' = Append(calls, [fn |-> "add_authority", record |-> record,
                                      ok |-> r.ok])
    /\ UNCHANGED <<cpc, hdr, wire, parsed, reemit, name_vars, out_message,
                   client_vars, spoofer_vars, driver_vars>>

\* response.add_additional(record)
AddAdditional(record) ==
    /\ cpc = "building"
    /\ Len(calls) < MaxCalls
    /\ LET r == Response_add_additional(builder, record)
       IN  /\ builder' = r.val
           /\ calls' = Append(calls, [fn |-> "add_additional", record |-> record,
                                      ok |-> r.ok])
    /\ UNCHANGED <<cpc, hdr, wire, parsed, reemit, name_vars, out_message,
                   client_vars, spoofer_vars, driver_vars>>

\* response.to_message()
ToMessage ==
    /\ cpc = "building"
    /\ out_message' = Response_to_message(builder)
    /\ cpc' = "message_out"
    /\ UNCHANGED <<hdr, wire, parsed, reemit, name_vars, builder, calls,
                   client_vars, spoofer_vars, driver_vars>>

NextResponse ==
    \/ NewResponse
    \/ \E record \in AddRecords : AddAnswer(record)
    \/ \E record \in AuthorityRecords : AddAuthority(record)
    \/ \E record \in AddRecords : AddAdditional(record)
    \/ ToMessage

SpecResponse == InitResponse /\ [][NextResponse]_vars

(***************************************************************************)
(* Claims about the response builder                                       *)
(***************************************************************************)
\* C18: Response::new(q).to_message() has qr, aa and ra set and rcode 0, the
\* id, opcode, tc, rd, z, qdcount and questions of q, and ancount, nscount
\* and arcount 0 with empty sections.
C18_FreshResponse ==
    (cpc = "message_out" /\ calls = <<>>) =>
        LET h == out_message.header
            q == msg.header
        IN  /\ h.qr /\ h.aa /\ h.ra
            /\ h.rcode = 0
            /\ h.id = q.id /\ h.opcode = q.opcode /\ h.tc = q.tc /\ h.rd = q.rd
            /\ h.z = q.z /\ h.qdcount = q.qdcount
            /\ out_message.questions = msg.questions
            /\ h.ancount = 0 /\ h.nscount = 0 /\ h.arcount = 0
            /\ out_message.answers = <<>>
            /\ out_message.authorities = <<>>
            /\ out_message.additionals = <<>>

\* to_message was called on a fresh Response whose query had the flags clear
\* and a non-zero rcode, z and ancount.
C18_Witness ==
    /\ cpc = "message_out"
    /\ calls = <<>>
    /\ ~msg.header.aa
    /\ msg.header.rcode = 3
    /\ msg.header.ancount = 3
    /\ msg.header.opcode = "STATUS"

RECURSIVE ConvertedBy(_, _)
\* The records of the successful calls of fn among cs, converted, in call order
ConvertedBy(fn, cs) ==
    IF cs = <<>> THEN <<>>
    ELSE IF Head(cs).fn = fn /\ Head(cs).ok
    THEN <<Record_to_rr(Head(cs).record).val>> \o ConvertedBy(fn, Tail(cs))
    ELSE ConvertedBy(fn, Tail(cs))

InvalidRecords == {Rec_bad, Rec_bad_ns}

\* C28: an add_answer, add_authority or add_additional call whose record has an
\* invalid name (or, for NS, an invalid nameserver) returns an error and leaves
\* the Response as it was (vectors, rcode, both flags), so that the later adds
\* and to_message, which read nothing but the Response, go on from the
\* Response of before the call.
C28_FailedAddLeavesResponse ==
    [][(Len(calls') = Len(calls) + 1 /\ calls'[Len(calls')].record \in InvalidRecords)
          => /\ ~calls'[Len(calls')].ok
             /\ builder' = builder
             /\ cpc' = "building"
             /\ out_message' = out_message]_vars

\* An answer was added, then an add_answer and an add_authority failed (invalid
\* name, invalid nameserver), and the message was built.
C28_Witness ==
    /\ cpc = "message_out"
    /\ Len(calls) = 3
    /\ calls[1] = [fn |-> "add_answer", record |-> Rec_A, ok |-> TRUE]
    /\ calls[2] = [fn |-> "add_answer", record |-> Rec_bad, ok |-> FALSE]
    /\ calls[3] = [fn |-> "add_authority", record |-> Rec_bad_ns, ok |-> FALSE]
    /\ Len(out_message.answers) = 1
    /\ out_message.authorities = <<>>

(***************************************************************************)
(* The client in query mode: src/src/dns/client.rs.  send_message connects *)
(* a fresh UDP socket, sends the query and waits in recv for the reply.    *)
(* Time is counted in seconds; the environment decides in the initial      *)
(* state whether and when the server's reply arrives.                      *)
(***************************************************************************)
\* Largest reading of the client's clock
MaxClock == 12

\* Client::new: timeout: Duration::new(10, 0)
ClientTimeout == 10

\* A socket option set to None
NoTimeout == 0

InitClient ==
    /\ DriverIdle
    /\ HeaderIdle
    /\ NamesIdle
    /\ ResponseIdle
    /\ SpooferIdle
    /\ cpc = "idle"
    /\ wire = <<>>
    /\ parsed = NoResult
    /\ cl_pc = "connect"
    /\ read_timeout = NoTimeout
    /\ write_timeout = NoTimeout
    /\ cl_now = 0
    /\ recv_start = 0
    /\ reply_at \in {-1} \cup (0..MaxClock)
    /\ cl_result = NoResult

\* self.connect()?: bind, set_write_timeout(Some(self.timeout)), connect.  Only
\* the write timeout is set; the read timeout of the new socket stays None.
Connect ==
    /\ cl_pc = "connect"
    /\ \E ok \in BOOLEAN :
          IF ok
          THEN /\ write_timeout' = ClientTimeout
               /\ cl_pc' = "send"
               /\ cl_result' = cl_result
          ELSE /\ write_timeout' = write_timeout
               /\ cl_pc' = "returned"
               /\ cl_result' = [ok |-> FALSE, err |-> "io"]
    /\ UNCHANGED <<read_timeout, cl_now, recv_start, reply_at, cpc, hdr, wire,
                   parsed, reemit, name_vars, response_vars,
                   spoofer_vars, driver_vars>>

\* socket.send(payload): Err(e) returns, Ok goes on to recv
Send ==
    /\ cl_pc = "send"
    /\ \E ok \in BOOLEAN :
          IF ok
          THEN /\ cl_pc' = "recv"
               /\ recv_start' = cl_now
               /\ cl_result' = cl_result
          ELSE /\ cl_pc' = "returned"
               /\ recv_start' = recv_start
               /\ cl_result' = [ok |-> FALSE, err |-> "io"]
    /\ UNCHANGED <<read_timeout, write_timeout, cl_now, reply_at, cpc, hdr, wire,
                   parsed, reemit, name_vars, response_vars,
                   spoofer_vars, driver_vars>>

\* socket.recv(&mut buffer) returns: with the datagram once it has arrived
\* (send_message then returns the Result of Message::parse), or with an I/O
\* error once a read timeout that is set has expired.  With the read timeout
\* None the call blocks until a datagram arrives.
Recv ==
    /\ cl_pc = "recv"
    /\ IF reply_at # -1 /\ cl_now >= reply_at
       THEN \E parse_ok \in BOOLEAN :
               cl_result' = IF parse_ok THEN [ok |-> TRUE]
                            ELSE [ok |-> FALSE, err |-> "parse"]
       ELSE /\ read_timeout # NoTimeout
            /\ cl_now - recv_start >= read_timeout
            /\ cl_result' = [ok |-> FALSE, err |-> "io"]
    /\ cl_pc' = "returned"
    /\ UNCHANGED <<read_timeout, write_timeout, cl_now, recv_start, reply_at, cpc,
                   hdr, wire, parsed, reemit, name_vars, response_vars,
                   spoofer_vars, driver_vars>>

\* recv is due to return: the datagram is there, or its read timeout expired
RecvDue ==
    /\ cl_pc = "recv"
    /\ \/ reply_at # -1 /\ cl_now >= reply_at
       \/ read_timeout # NoTimeout /\ cl_now - recv_start >= read_timeout

\* One second passes.  The kernel wakes a recv that is due before more time
\* passes.
ClientTick ==
    /\ cl_pc # "returned"
    /\ cl_now < MaxClock
    /\ ~RecvDue
    /\ cl_now' = cl_now + 1
    /\ UNCHANGED <<cl_pc, read_timeout, write_timeout, recv_start, reply_at,
                   cl_result, cpc, hdr, wire, parsed, reemit, name_vars,
                   response_vars,
                   spoofer_vars, driver_vars>>

NextClient == Connect \/ Send \/ Recv \/ ClientTick

SpecClient == InitClient /\ [][NextClient]_vars

(***************************************************************************)
(* Claims about the client                                                 *)
(***************************************************************************)
\* C20: when no DNS reply ever arrives, the query call does not block forever:
\* it returns an I/O error once the 10-second timeout has expired.  Stated on
\* finite runs: with no reply coming, the client is never still inside recv
\* more than 10 seconds after it entered it.
C20_QueryTimesOut ==
    (reply_at = -1 /\ cl_pc = "recv") => cl_now - recv_start <= ClientTimeout

(***************************************************************************)
(* The packet forger: src/src/spoofer.rs.  Spoofer::new builds the IPv4     *)
(* template over a buffer sized for the largest payload; send_bytes builds *)
(* the UDP packet, copies it into the template and hands the template to   *)
(* the raw socket.  The packet types are those of the pnet library: a      *)
(* packet is a view of its whole buffer, set_payload copies its argument   *)
(* to the bytes behind the header, and send_to sends the packet's buffer.  *)
(***************************************************************************)
\* Largest number of send_bytes calls that are explored
MaxSends == 3

IP_HEADER_BYTES == 20
UDP_HEADER_BYTES == 8

\* The 16-bit words of an even number of bytes, big-endian
Words(bytes) ==
    [k \in 1..(Len(bytes) \div 2) |-> bytes[2 * k - 1] * 256 + bytes[2 * k]]

RECURSIVE WordSum(_)
WordSum(words) == IF words = <<>> THEN 0 ELSE Head(words) + WordSum(Tail(words))

\* The internet checksum of pnet (ipv4::checksum, udp::ipv4_checksum): the
\* one's complement of the one's-complement sum of the words
checksum(words) ==
    LET sum == WordSum(words)
        folded == IF sum = 0 THEN 0 ELSE ((sum - 1) % 65535) + 1
    IN  65535 - folded

\* Spoofer::new: the template populated over a buffer of payload_size + 20 + 8
\* bytes.  The 20 header bytes are the fields; payload is the rest of the
\* buffer.
Spoofer_new(spoofed_addr, target_addr, payload_size) ==
    [spoofed_port |-> 53,
     target_port |-> 33333,
     ip_template |->
        [version |-> 4, header_length |-> 5, dscp |-> 0, ecn |-> 0,
         total_length |-> 0, identification |-> 0, flags |-> 2,
         fragment_offset |-> 0, ttl |-> 64, next_level_protocol |-> "Udp",
         checksum |-> 0, source |-> spoofed_addr, destination |-> target_addr,
         options |-> <<>>,
         payload |-> [k \in 1..(payload_size + UDP_HEADER_BYTES) |-> 0]]]

\* The header words of an Ipv4 packet with its checksum field taken as zero
Ipv4_header_words(ip) ==
    <<(ip.version * 16 + ip.header_length) * 256 + ip.dscp * 4 + ip.ecn,
      ip.total_length, ip.identification,
      ip.flags * 8192 + ip.fragment_offset,
      ip.ttl * 256 + 17, 0>>
        \o Words(ip.source) \o Words(ip.destination)

\* Spoofer::send_bytes up to the call of send_to: the Spoofer with its template
\* updated, which is the packet handed to the raw socket.  `checked` tells
\* whether the build checks integer overflow (it panics) or wraps.
Spoofer_send_bytes(sp, bytes, checked) ==
    CHOOSE result \in
      { LET total == IP_HEADER_BYTES + length
            padded == IF Len(bytes) % 2 = 0 THEN bytes ELSE bytes \o <<0>>
            udp_checksum ==
                checksum(Words(sp.ip_template.source)
                           \o Words(sp.ip_template.destination)
                           \o <<17, length, sp.spoofed_port, sp.target_port, length, 0>>
                           \o Words(padded))
            udp_packet ==
                u16_to_be_bytes(sp.spoofed_port) \o u16_to_be_bytes(sp.target_port)
                    \o u16_to_be_bytes(length) \o u16_to_be_bytes(udp_checksum)
                    \o bytes
            old == sp.ip_template.payload
            sized == [sp.ip_template EXCEPT !.total_length = total % 65536]
            filled == [sized EXCEPT !.payload =
                          [k \in 1..Len(old) |->
                              IF k <= Len(udp_packet) THEN udp_packet[k] ELSE old[k]]]
        IN  IF total > 65535 /\ checked THEN Panic
            ELSE IF Len(udp_packet) > Len(old) THEN Panic
            ELSE [ok |-> TRUE,
                  val |-> [sp EXCEPT !.ip_template =
                              [filled EXCEPT !.checksum =
                                  checksum(Ipv4_header_words(filled))]]] :
          length \in {(UDP_HEADER_BYTES + Len(bytes)) % 65536} } : TRUE

\* The bytes of an Ipv4 packet's buffer: what send_to hands to the socket
Ipv4_packet(ip) ==
    Flatten([k \in 1..5 |-> u16_to_be_bytes(Ipv4_header_words(ip)[k])])
        \o u16_to_be_bytes(ip.checksum) \o ip.source \o ip.destination
        \o ip.payload

\* Arguments of Spoofer::new and of send_bytes
SpoofedAddrs == {<<1, 2, 3, 4>>, <<192, 168, 0, 1>>}
TargetAddr == <<5, 6, 7, 8>>
PayloadSizes == {0, 2, 3}
Payloads == {<<>>, <<9>>, <<7, 7>>, <<1, 2, 3>>}

InitSpoofer ==
    /\ DriverIdle
    /\ HeaderIdle
    /\ NamesIdle
    /\ ResponseIdle
    /\ ClientIdle
    /\ cpc = "idle"
    /\ wire = <<>>
    /\ parsed = NoResult
    /\ sp_pc = "new"
    /\ sp_args \in [spoofed_addr : SpoofedAddrs, target_addr : {TargetAddr},
                    payload_size : PayloadSizes]
    /\ spoofer = NoResult
    /\ sp_sends = 0
    /\ sp_call = NoResult

\* Spoofer::new(spoofed_addr, target_addr, payload_size): transport_channel may
\* fail (no permission for a raw socket), which returns the error
NewSpoofer ==
    /\ sp_pc = "new"
    /\ \E opened \in BOOLEAN :
          IF opened
          THEN /\ spoofer' = Spoofer_new(sp_args.spoofed_addr, sp_args.target_addr,
                                         sp_args.payload_size)
               /\ sp_pc' = "ready"
          ELSE /\ spoofer' = spoofer
               /\ sp_pc' = "err"
    /\ UNCHANGED <<sp_args, sp_sends, sp_call, cpc, hdr, wire, parsed, reemit,
                   name_vars, response_vars, client_vars, driver_vars>>

\* spoofer.send_bytes(bytes): the template is updated and handed to send_to,
\* whose result is returned
SendBytes(bytes) ==
    /\ sp_pc = "ready"
    /\ sp_sends < MaxSends
    /\ \E checked \in BOOLEAN, sent \in BOOLEAN :
          LET r == Spoofer_send_bytes(spoofer, bytes, checked)
          IN  IF r.ok
              THEN /\ spoofer' = r.val
                   /\ sp_call' = [bytes |-> bytes,
                                  datagram |-> Ipv4_packet(r.val.ip_template),
                                  ok |-> sent]
                   /\ sp_pc' = "ready"
              ELSE /\ spoofer' = spoofer
                   /\ sp_call' = [bytes |-> bytes, panic |-> TRUE]
                   /\ sp_pc' = "panic"
    /\ sp_sends' = sp_sends + 1
    /\ UNCHANGED <<sp_args, cpc, hdr, wire, parsed, reemit, name_vars,
                   response_vars, client_vars, driver_vars>>

NextSpoofer == NewSpoofer \/ \E bytes \in Payloads : SendBytes(bytes)

SpecSpoofer == InitSpoofer /\ [][NextSpoofer]_vars

(***************************************************************************)
(* Claims about the packet forger                                          *)
(***************************************************************************)
\* send_bytes handed a datagram to the raw socket for a payload no longer than
\* the size given to Spoofer::new.
SendDone ==
    /\ sp_call # NoResult
    /\ "datagram" \in DOMAIN sp_call
    /\ Len(sp_call.bytes) <= sp_args.payload_size

\* The 16-bit big-endian field at byte offset `offset` of a datagram
FieldAt(datagram, offset) == datagram[offset + 1] * 256 + datagram[offset + 2]

\* The header fields of the datagram of the last send are those of its payload
\* and of the construction.
DatagramFields ==
    LET d == sp_call.datagram
        n == Len(sp_call.bytes)
    IN  /\ FieldAt(d, 2) = IP_HEADER_BYTES + UDP_HEADER_BYTES + n
        /\ FieldAt(d, 24) = UDP_HEADER_BYTES + n
        /\ FieldAt(d, 20) = 53
        /\ FieldAt(d, 22) = 33333
        /\ SubSeq(d, 13, 16) = sp_args.spoofed_addr
        /\ SubSeq(d, 17, 20) = sp_args.target_addr
        /\ d[7] \div 32 = 2
        /\ d[9] = 64
        /\ d[10] = 17

\* C26: for every send of a sequence of sends from one Spoofer, the datagram
\* handed to the raw socket has total_length = 20 + 8 + payload_len, UDP length
\* = 8 + payload_len, ports 53 and 33333, and source, destination, DF, TTL 64
\* and protocol UDP as fixed at construction; it is that long and ends with the
\* payload, so that nothing left by an earlier send of another length appears.
C26_DatagramOfThisSend ==
    SendDone =>
        /\ DatagramFields
        /\ Len(sp_call.datagram)
              = IP_HEADER_BYTES + UDP_HEADER_BYTES + Len(sp_call.bytes)
        /\ SubSeq(sp_call.datagram, IP_HEADER_BYTES + UDP_HEADER_BYTES + 1,
                  Len(sp_call.datagram)) = sp_call.bytes

====
